---- MODULE Spec2Model ----
(***************************************************************************)
(* Cube engine, OLL/PLL lookup-table resolver and path solver of           *)
(* experimentation/cube-photo-solve.                                       *)
(*                                                                         *)
(* Strings of the program are sequences of one-character strings, so that  *)
(* split, endswith, slicing and join are modelled by what they do.  Face   *)
(* grids are functions on 0..8, with the source's indices.                 *)
(***************************************************************************)
EXTENDS Integers, Sequences, FiniteSets, TLC

(* ------------------------------ bounds -------------------------------- *)

\* apply_algorithm calls that set a cube up before the call under test.
MaxSteps == 2

\* OLL cases and PLL cases of the catalogue the resolver is built over.
MaxOLL == 2
MaxPLL == 2

\* Candidate paths the finders append before the paths are ranked.
MaxCandidates == 3

\* Instances the getters of the pipeline hand out before the queries stop.
MaxQueries == 7

\* Moves applied to a cube or to its copy after the copy is made.
MaxCopyMoves == 2

(* ------------------------------ strings ------------------------------- *)

\* s.endswith(c) for a one-character c.
EndsWith(s, c) == Len(s) > 0 /\ s[Len(s)] = c

\* s[:-1]
DropLast(s) == SubSeq(s, 1, Len(s) - 1)

\* str.split(): the maximal runs of non-blank characters, in order.
RECURSIVE SplitFrom(_, _, _)
SplitFrom(s, i, cur) ==
  IF i > Len(s)
  THEN IF cur = <<>> THEN <<>> ELSE <<cur>>
  ELSE IF s[i] = " "
       THEN IF cur = <<>>
            THEN SplitFrom(s, i + 1, <<>>)
            ELSE <<cur>> \o SplitFrom(s, i + 1, <<>>)
       ELSE SplitFrom(s, i + 1, Append(cur, s[i]))

Split(s) == SplitFrom(s, 1, <<>>)

\* sep.join(parts) for a one-character sep.
RECURSIVE JoinWith(_, _)
JoinWith(sep, parts) ==
  IF parts = <<>> THEN <<>>
  ELSE IF Len(parts) = 1 THEN parts[1]
  ELSE parts[1] \o <<sep>> \o JoinWith(sep, Tail(parts))

\* ''.join(parts)
RECURSIVE Join(_)
Join(parts) ==
  IF parts = <<>> THEN <<>> ELSE Head(parts) \o Join(Tail(parts))

(* ------------------------------ catalog ------------------------------- *)

\* Dictionaries are sequences of <<key, value>> in insertion order.
OLL_CASES ==
  <<
    <<"OLL 1", <<"R"," ","U","2"," ","R","2"," ","F"," ","R"," ","F","'"," ","U","2"," ","R","'"," ","F"," ","R"," ","F","'">>>>,
    <<"OLL 2", <<"F"," ","R"," ","U"," ","R","'"," ","U","'"," ","F","'"," ","f"," ","R"," ","U"," ","R","'"," ","U","'"," ","f","'">>>>,
    <<"OLL 3", <<"f"," ","R"," ","U"," ","R","'"," ","U","'"," ","f","'"," ","U","'"," ","F"," ","R"," ","U"," ","R","'"," ","U","'"," ","F","'">>>>,
    <<"OLL 4", <<"f"," ","R"," ","U"," ","R","'"," ","U","'"," ","f","'"," ","U"," ","F"," ","R"," ","U"," ","R","'"," ","U","'"," ","F","'">>>>,
    <<"OLL 5", <<"r","'"," ","U","2"," ","R"," ","U"," ","R","'"," ","U"," ","r">>>>,
    <<"OLL 6", <<"r"," ","U","2"," ","R","'"," ","U","'"," ","R"," ","U","'"," ","r","'">>>>,
    <<"OLL 7", <<"r"," ","U"," ","R","'"," ","U"," ","R"," ","U","2"," ","r","'">>>>,
    <<"OLL 8", <<"r","'"," ","U","'"," ","R"," ","U","'"," ","R","'"," ","U","2"," ","r">>>>,
    <<"OLL 9", <<"R"," ","U"," ","R","'"," ","U","'"," ","R","'"," ","F"," ","R","2"," ","U"," ","R","'"," ","U","'"," ","F","'">>>>,
    <<"OLL 10", <<"R"," ","U"," ","R","'"," ","U"," ","R","'"," ","F"," ","R"," ","F","'"," ","R"," ","U","2"," ","R","'">>>>,
    <<"OLL 11", <<"r"," ","U"," ","R","'"," ","U"," ","R","'"," ","F"," ","R"," ","F","'"," ","R"," ","U","2"," ","r","'">>>>,
    <<"OLL 12", <<"M","'"," ","R","'"," ","U","'"," ","R"," ","U","'"," ","R","'"," ","U","2"," ","R"," ","U","'"," ","R"," ","r","'">>>>,
    <<"OLL 13", <<"F"," ","U"," ","R"," ","U","'"," ","R","2"," ","F","'"," ","R"," ","U"," ","R"," ","U","'"," ","R","'">>>>,
    <<"OLL 14", <<"R","'"," ","F"," ","R"," ","U"," ","R","'"," ","F","'"," ","R"," ","F"," ","U","'"," ","F","'">>>>,
    <<"OLL 15", <<"r","'"," ","U","'"," ","r"," ","R","'"," ","U","'"," ","R"," ","U"," ","r","'"," ","U"," ","r">>>>,
    <<"OLL 16", <<"r"," ","U"," ","r","'"," ","R"," ","U"," ","R","'"," ","U","'"," ","r"," ","U","'"," ","r","'">>>>,
    <<"OLL 17", <<"R"," ","U"," ","R","'"," ","U"," ","R","'"," ","F"," ","R"," ","F","'"," ","U","2"," ","R","'"," ","F"," ","R"," ","F","'">>>>,
    <<"OLL 18", <<"r"," ","U"," ","R","'"," ","U"," ","R"," ","U","2"," ","r","2"," ","U","'"," ","R"," ","U","'"," ","R","'"," ","U","2"," ","r">>>>,
    <<"OLL 19", <<"M"," ","U"," ","R"," ","U"," ","R","'"," ","U","'"," ","M","'"," ","R","'"," ","F"," ","R"," ","F","'">>>>,
    <<"OLL 20", <<"M"," ","U"," ","R"," ","U"," ","R","'"," ","U","'"," ","M","2"," ","U"," ","R"," ","U","'"," ","r","'">>>>,
    <<"OLL 21", <<"R"," ","U","2"," ","R","'"," ","U","'"," ","R"," ","U"," ","R","'"," ","U","'"," ","R"," ","U","'"," ","R","'">>>>,
    <<"OLL 22", <<"R"," ","U","2"," ","R","2"," ","U","'"," ","R","2"," ","U","'"," ","R","2"," ","U","2"," ","R">>>>,
    <<"OLL 23", <<"R","2"," ","D","'"," ","R"," ","U","2"," ","R","'"," ","D"," ","R"," ","U","2"," ","R">>>>,
    <<"OLL 24", <<"r"," ","U"," ","R","'"," ","U","'"," ","r","'"," ","F"," ","R"," ","F","'">>>>,
    <<"OLL 25", <<"F","'"," ","r"," ","U"," ","R","'"," ","U","'"," ","r","'"," ","F"," ","R">>>>,
    <<"OLL 26", <<"R"," ","U","2"," ","R","'"," ","U","'"," ","R"," ","U","'"," ","R","'">>>>,
    <<"OLL 27", <<"R"," ","U"," ","R","'"," ","U"," ","R"," ","U","2"," ","R","'">>>>,
    <<"OLL 28", <<"r"," ","U"," ","R","'"," ","U","'"," ","r","'"," ","R"," ","U"," ","R"," ","U","'"," ","R","'">>>>,
    <<"OLL 29", <<"R"," ","U"," ","R","'"," ","U","'"," ","R"," ","U","'"," ","R","'"," ","F","'"," ","U","'"," ","F"," ","R"," ","U"," ","R","'">>>>,
    <<"OLL 30", <<"F"," ","R","'"," ","F"," ","R","2"," ","U","'"," ","R","'"," ","U","'"," ","R"," ","U"," ","R","'"," ","F","2">>>>,
    <<"OLL 31", <<"R","'"," ","U","'"," ","F"," ","U"," ","R"," ","U","'"," ","R","'"," ","F","'"," ","R">>>>,
    <<"OLL 32", <<"L"," ","U"," ","F","'"," ","U","'"," ","L","'"," ","U"," ","L"," ","F"," ","L","'">>>>,
    <<"OLL 33", <<"R"," ","U"," ","R","'"," ","U","'"," ","R","'"," ","F"," ","R"," ","F","'">>>>,
    <<"OLL 34", <<"R"," ","U"," ","R","2"," ","U","'"," ","R","'"," ","F"," ","R"," ","U"," ","R"," ","U","'"," ","F","'">>>>,
    <<"OLL 35", <<"R"," ","U","2"," ","R","2"," ","F"," ","R"," ","F","'"," ","R"," ","U","2"," ","R","'">>>>,
    <<"OLL 36", <<"L","'"," ","U","'"," ","L"," ","U","'"," ","L","'"," ","U"," ","L"," ","U"," ","L"," ","F","'"," ","L","'"," ","F">>>>,
    <<"OLL 37", <<"F"," ","R"," ","U","'"," ","R","'"," ","U","'"," ","R"," ","U"," ","R","'"," ","F","'">>>>,
    <<"OLL 38", <<"R"," ","U"," ","R","'"," ","U"," ","R"," ","U","'"," ","R","'"," ","U","'"," ","R","'"," ","F"," ","R"," ","F","'">>>>,
    <<"OLL 39", <<"L"," ","F","'"," ","L","'"," ","U","'"," ","L"," ","U"," ","F"," ","U","'"," ","L","'">>>>,
    <<"OLL 40", <<"R","'"," ","F"," ","R"," ","U"," ","R","'"," ","U","'"," ","F","'"," ","U"," ","R">>>>,
    <<"OLL 41", <<"R"," ","U"," ","R","'"," ","U"," ","R"," ","U","2"," ","R","'"," ","F"," ","R"," ","U"," ","R","'"," ","U","'"," ","F","'">>>>,
    <<"OLL 42", <<"R","'"," ","U","'"," ","R"," ","U","'"," ","R","'"," ","U","2"," ","R"," ","F"," ","R"," ","U"," ","R","'"," ","U","'"," ","F","'">>>>,
    <<"OLL 43", <<"F","'"," ","U","'"," ","L","'"," ","U"," ","L"," ","F">>>>,
    <<"OLL 44", <<"F"," ","U"," ","R"," ","U","'"," ","R","'"," ","F","'">>>>,
    <<"OLL 45", <<"F"," ","R"," ","U"," ","R","'"," ","U","'"," ","F","'">>>>,
    <<"OLL 46", <<"R","'"," ","U","'"," ","R","'"," ","F"," ","R"," ","F","'"," ","U"," ","R">>>>,
    <<"OLL 47", <<"R","'"," ","U","'"," ","R","'"," ","F"," ","R"," ","F","'"," ","R","'"," ","F"," ","R"," ","F","'"," ","U"," ","R">>>>,
    <<"OLL 48", <<"F"," ","R"," ","U"," ","R","'"," ","U","'"," ","R"," ","U"," ","R","'"," ","U","'"," ","F","'">>>>,
    <<"OLL 49", <<"r"," ","U","'"," ","r","2"," ","U"," ","r","2"," ","U"," ","r","2"," ","U","'"," ","r">>>>,
    <<"OLL 50", <<"r","'"," ","U"," ","r","2"," ","U","'"," ","r","2"," ","U","'"," ","r","2"," ","U"," ","r","'">>>>,
    <<"OLL 51", <<"f"," ","R"," ","U"," ","R","'"," ","U","'"," ","R"," ","U"," ","R","'"," ","U","'"," ","f","'">>>>,
    <<"OLL 52", <<"R","'"," ","F","'"," ","U","'"," ","F"," ","U","'"," ","R"," ","U"," ","R","'"," ","U"," ","R">>>>,
    <<"OLL 53", <<"r","'"," ","U","'"," ","R"," ","U","'"," ","R","'"," ","U"," ","R"," ","U","'"," ","R","'"," ","U","2"," ","r">>>>,
    <<"OLL 54", <<"r"," ","U"," ","R","'"," ","U"," ","R"," ","U","'"," ","R","'"," ","U"," ","R"," ","U","2"," ","r","'">>>>,
    <<"OLL 55", <<"R"," ","U","2"," ","R","2"," ","U","'"," ","R"," ","U","'"," ","R","'"," ","U","2"," ","F"," ","R"," ","F","'">>>>,
    <<"OLL 56", <<"r"," ","U"," ","r","'"," ","U"," ","R"," ","U","'"," ","R","'"," ","U"," ","R"," ","U","'"," ","R","'"," ","r"," ","U","'"," ","r","'">>>>,
    <<"OLL 57", <<"R"," ","U"," ","R","'"," ","U","'"," ","M","'"," ","U"," ","R"," ","U","'"," ","r","'">>>>,
    <<"Sune", <<"R"," ","U"," ","R","'"," ","U"," ","R"," ","U","2"," ","R","'">>>>,
    <<"Anti-Sune", <<"R"," ","U","2"," ","R","'"," ","U","'"," ","R"," ","U","'"," ","R","'">>>>
  >>

PLL_CASES ==
  <<
    <<"T-Perm", <<"R"," ","U"," ","R","'"," ","U","'"," ","R","'"," ","F"," ","R","2"," ","U","'"," ","R","'"," ","U","'"," ","R"," ","U"," ","R","'"," ","F","'">>>>,
    <<"J-Perm (a)", <<"x"," ","R","2"," ","F"," ","R"," ","F","'"," ","R"," ","U","2"," ","r","'"," ","U"," ","r"," ","U","2"," ","x","'">>>>,
    <<"J-Perm (b)", <<"R"," ","U"," ","R","'"," ","F","'"," ","R"," ","U"," ","R","'"," ","U","'"," ","R","'"," ","F"," ","R","2"," ","U","'"," ","R","'">>>>,
    <<"F-Perm", <<"R","'"," ","U","'"," ","F","'"," ","R"," ","U"," ","R","'"," ","U","'"," ","R","'"," ","F"," ","R","2"," ","U","'"," ","R","'"," ","U","'"," ","R"," ","U"," ","R","'"," ","U"," ","R">>>>,
    <<"R-Perm (a)", <<"R"," ","U","'"," ","R","'"," ","U","'"," ","R"," ","U"," ","R"," ","D"," ","R","'"," ","U","'"," ","R"," ","D","'"," ","R","'"," ","U","2"," ","R","'">>>>,
    <<"R-Perm (b)", <<"R","'"," ","U","2"," ","R"," ","U","2"," ","R","'"," ","F"," ","R"," ","U"," ","R","'"," ","U","'"," ","R","'"," ","F","'"," ","R","2">>>>,
    <<"Y-Perm", <<"F"," ","R"," ","U","'"," ","R","'"," ","U","'"," ","R"," ","U"," ","R","'"," ","F","'"," ","R"," ","U"," ","R","'"," ","U","'"," ","R","'"," ","F"," ","R"," ","F","'">>>>,
    <<"V-Perm", <<"R","'"," ","U"," ","R","'"," ","U","'"," ","y"," ","R","'"," ","F","'"," ","R","2"," ","U","'"," ","R","'"," ","U"," ","R","'"," ","F"," ","R"," ","F">>>>,
    <<"N-Perm (a)", <<"R"," ","U"," ","R","'"," ","U"," ","R"," ","U"," ","R","'"," ","F","'"," ","R"," ","U"," ","R","'"," ","U","'"," ","R","'"," ","F"," ","R","2"," ","U","'"," ","R","'"," ","U","2"," ","R"," ","U","'"," ","R","'">>>>,
    <<"N-Perm (b)", <<"R","'"," ","U"," ","R"," ","U","'"," ","R","'"," ","F","'"," ","U","'"," ","F"," ","R"," ","U"," ","R","'"," ","F"," ","R","'"," ","F","'"," ","R"," ","U","'"," ","R">>>>,
    <<"U-Perm (a)", <<"R","2"," ","U"," ","R"," ","U"," ","R","'"," ","U","'"," ","R","'"," ","U","'"," ","R","'"," ","U"," ","R","'">>>>,
    <<"U-Perm (b)", <<"R","'"," ","U"," ","R","'"," ","U","'"," ","R","'"," ","U","'"," ","R","'"," ","U"," ","R"," ","U"," ","R","2">>>>,
    <<"Z-Perm", <<"M","2"," ","U"," ","M","2"," ","U"," ","M","'"," ","U","2"," ","M","2"," ","U","2"," ","M","'"," ","U","2">>>>,
    <<"H-Perm", <<"M","2"," ","U"," ","M","2"," ","U","2"," ","M","2"," ","U"," ","M","2">>>>,
    <<"A-Perm (a)", <<"x"," ","R","'"," ","U"," ","R","'"," ","D","2"," ","R"," ","U","'"," ","R","'"," ","D","2"," ","R","2"," ","x","'">>>>,
    <<"A-Perm (b)", <<"x"," ","R","2"," ","D","2"," ","R"," ","U"," ","R","'"," ","D","2"," ","R"," ","U","'"," ","R"," ","x","'">>>>,
    <<"G-Perm (a)", <<"R","2"," ","U"," ","R","'"," ","U"," ","R","'"," ","U","'"," ","R"," ","U","'"," ","R","2"," ","D"," ","U","'"," ","R","'"," ","U"," ","R"," ","D","'">>>>,
    <<"G-Perm (b)", <<"R","'"," ","U","'"," ","R"," ","U"," ","D","'"," ","R","2"," ","U"," ","R","'"," ","U"," ","R"," ","U","'"," ","R"," ","U","'"," ","R","2"," ","D">>>>,
    <<"G-Perm (c)", <<"R","2"," ","U","'"," ","R"," ","U","'"," ","R"," ","U"," ","R","'"," ","U"," ","R","2"," ","D","'"," ","U"," ","R"," ","U","'"," ","R","'"," ","D">>>>,
    <<"G-Perm (d)", <<"R"," ","U"," ","R","'"," ","U","'"," ","D"," ","R","2"," ","U","'"," ","R"," ","U","'"," ","R","'"," ","U"," ","R","'"," ","U"," ","R","2"," ","D","'">>>>,
    <<"Solved", <<>>>>
  >>

parse_algorithm(alg_string) ==
  IF alg_string = <<>> THEN <<>> ELSE Split(alg_string)

(* ------------------------------- cube --------------------------------- *)

Colors == {"W", "Y", "R", "O", "G", "B"}
FaceNames == {"U", "D", "F", "B", "L", "R"}

\* A face is the tuple of its 9 stickers; St reads the sticker at the
\* source's (0-based) index.
Mono(c) == [i \in 1..9 |-> c]

St(f, X, i) == f[X][i + 1]

\* Cube.__init__: the solved cube.
CubeInit ==
  [U |-> Mono("W"), D |-> Mono("Y"), F |-> Mono("R"),
   B |-> Mono("O"), L |-> Mono("G"), R |-> Mono("B")]

\* temp = [X[i], X[j], X[k]]
Take3(f, X, i, j, k) == <<St(f, X, i), St(f, X, j), St(f, X, k)>>

\* X[i], X[j], X[k] = Y[a], Y[b], Y[c]
Copy3(f, X, i, j, k, Y, a, b, c) ==
  [f EXCEPT ![X] = [@ EXCEPT ![i + 1] = St(f, Y, a),
                             ![j + 1] = St(f, Y, b),
                             ![k + 1] = St(f, Y, c)]]

\* X[i], X[j], X[k] = temp
Put3(f, X, i, j, k, temp) ==
  [f EXCEPT ![X] = [@ EXCEPT ![i + 1] = temp[1],
                             ![j + 1] = temp[2],
                             ![k + 1] = temp[3]]]

RotIdx == <<6, 3, 0, 7, 4, 1, 8, 5, 2>>

rotate_face_cw(f, face) ==
  [f EXCEPT ![face] = [i \in 1..9 |-> St(f, face, RotIdx[i])]]

\* move_R with the last assignment reading U after it was overwritten.
move_R_no_temp(f0) ==
  LET f1 == rotate_face_cw(f0, "R")
      f2 == Copy3(f1, "U", 2, 5, 8, "F", 2, 5, 8)
      f3 == Copy3(f2, "F", 2, 5, 8, "D", 2, 5, 8)
      f4 == Copy3(f3, "D", 2, 5, 8, "B", 6, 3, 0)
  IN  Copy3(f4, "B", 6, 3, 0, "U", 2, 5, 8)

move_R(f0) ==
  LET f1 == rotate_face_cw(f0, "R")
      temp == Take3(f1, "U", 2, 5, 8)
      f2 == Copy3(f1, "U", 2, 5, 8, "F", 2, 5, 8)
      f3 == Copy3(f2, "F", 2, 5, 8, "D", 2, 5, 8)
      f4 == Copy3(f3, "D", 2, 5, 8, "B", 6, 3, 0)
  IN  Put3(f4, "B", 6, 3, 0, temp)

move_L(f0) ==
  LET f1 == rotate_face_cw(f0, "L")
      temp == Take3(f1, "U", 0, 3, 6)
      f2 == Copy3(f1, "U", 0, 3, 6, "B", 8, 5, 2)
      f3 == Copy3(f2, "B", 8, 5, 2, "D", 0, 3, 6)
      f4 == Copy3(f3, "D", 0, 3, 6, "F", 0, 3, 6)
  IN  Put3(f4, "F", 0, 3, 6, temp)

move_U(f0) ==
  LET f1 == rotate_face_cw(f0, "U")
      temp == Take3(f1, "F", 0, 1, 2)
      f2 == Copy3(f1, "F", 0, 1, 2, "R", 0, 1, 2)
      f3 == Copy3(f2, "R", 0, 1, 2, "B", 0, 1, 2)
      f4 == Copy3(f3, "B", 0, 1, 2, "L", 0, 1, 2)
  IN  Put3(f4, "L", 0, 1, 2, temp)

move_D(f0) ==
  LET f1 == rotate_face_cw(f0, "D")
      temp == Take3(f1, "F", 6, 7, 8)
      f2 == Copy3(f1, "F", 6, 7, 8, "L", 6, 7, 8)
      f3 == Copy3(f2, "L", 6, 7, 8, "B", 6, 7, 8)
      f4 == Copy3(f3, "B", 6, 7, 8, "R", 6, 7, 8)
  IN  Put3(f4, "R", 6, 7, 8, temp)

\* move_F with the last assignment reading U after it was overwritten.
move_F_no_temp(f0) ==
  LET f1 == rotate_face_cw(f0, "F")
      f2 == Copy3(f1, "U", 6, 7, 8, "L", 8, 5, 2)
      f3 == Copy3(f2, "L", 2, 5, 8, "D", 0, 1, 2)
      f4 == Copy3(f3, "D", 0, 1, 2, "R", 6, 3, 0)
  IN  Copy3(f4, "R", 0, 3, 6, "U", 6, 7, 8)

move_F(f0) ==
  LET f1 == rotate_face_cw(f0, "F")
      temp == Take3(f1, "U", 6, 7, 8)
      f2 == Copy3(f1, "U", 6, 7, 8, "L", 8, 5, 2)
      f3 == Copy3(f2, "L", 2, 5, 8, "D", 0, 1, 2)
      f4 == Copy3(f3, "D", 0, 1, 2, "R", 6, 3, 0)
  IN  Put3(f4, "R", 0, 3, 6, temp)

move_B(f0) ==
  LET f1 == rotate_face_cw(f0, "B")
      temp == Take3(f1, "U", 0, 1, 2)
      f2 == Copy3(f1, "U", 0, 1, 2, "R", 2, 5, 8)
      f3 == Copy3(f2, "R", 2, 5, 8, "D", 8, 7, 6)
      f4 == Copy3(f3, "D", 6, 7, 8, "L", 0, 3, 6)
  IN  Put3(f4, "L", 0, 3, 6, temp)

move_M(f0) ==
  LET temp == Take3(f0, "U", 1, 4, 7)
      f2 == Copy3(f0, "U", 1, 4, 7, "B", 7, 4, 1)
      f3 == Copy3(f2, "B", 7, 4, 1, "D", 1, 4, 7)
      f4 == Copy3(f3, "D", 1, 4, 7, "F", 1, 4, 7)
  IN  Put3(f4, "F", 1, 4, 7, temp)

move_S(f0) ==
  LET temp == Take3(f0, "U", 3, 4, 5)
      f2 == Copy3(f0, "U", 3, 4, 5, "L", 7, 4, 1)
      f3 == Copy3(f2, "L", 1, 4, 7, "D", 3, 4, 5)
      f4 == Copy3(f3, "D", 3, 4, 5, "R", 7, 4, 1)
  IN  Put3(f4, "R", 1, 4, 7, temp)

move_E(f0) ==
  LET temp == Take3(f0, "F", 3, 4, 5)
      f2 == Copy3(f0, "F", 3, 4, 5, "L", 3, 4, 5)
      f3 == Copy3(f2, "L", 3, 4, 5, "B", 3, 4, 5)
      f4 == Copy3(f3, "B", 3, 4, 5, "R", 3, 4, 5)
  IN  Put3(f4, "R", 3, 4, 5, temp)

\* _move_r with M in place of M'.
move_r_with_M(f) == move_M(move_R(f))

\* self.apply_move("M'") and the like inside the wide moves are three turns.
move_r(f) == move_M(move_M(move_M(move_R(f))))

move_l(f) == move_M(move_L(f))

move_u(f) == move_E(move_E(move_E(move_U(f))))

move_d(f) == move_E(move_D(f))

move_f(f) == move_S(move_F(f))

move_b(f) == move_S(move_S(move_S(move_B(f))))

move_x(f) == move_L(move_L(move_L(move_M(move_M(move_M(move_R(f)))))))

move_y(f) == move_D(move_D(move_D(move_E(move_E(move_E(move_U(f)))))))

move_z(f) == move_B(move_B(move_B(move_S(move_F(f)))))

\* The result of a call that may raise: ok = FALSE is the ValueError, and
\* faces is the cube as the call left it.
Done(f) == [ok |-> TRUE, faces |-> f]
Raised(f) == [ok |-> FALSE, faces |-> f]

\* apply_single_move with the moves of apply_move's docstring only.
apply_single_move_docstring(f, move) ==
  CASE move = <<"R">> -> Done(move_R(f))
    [] move = <<"L">> -> Done(move_L(f))
    [] move = <<"U">> -> Done(move_U(f))
    [] move = <<"D">> -> Done(move_D(f))
    [] move = <<"F">> -> Done(move_F(f))
    [] move = <<"B">> -> Done(move_B(f))
    [] move = <<"M">> -> Done(move_M(f))
    [] move = <<"r">> -> Done(move_r(f))
    [] move = <<"x">> -> Done(move_x(f))
    [] move = <<"y">> -> Done(move_y(f))
    [] move = <<"z">> -> Done(move_z(f))
    [] OTHER -> Raised(f)

apply_single_move(f, move) ==
  CASE move = <<"R">> -> Done(move_R(f))
    [] move = <<"L">> -> Done(move_L(f))
    [] move = <<"U">> -> Done(move_U(f))
    [] move = <<"D">> -> Done(move_D(f))
    [] move = <<"F">> -> Done(move_F(f))
    [] move = <<"B">> -> Done(move_B(f))
    [] move = <<"M">> -> Done(move_M(f))
    [] move = <<"S">> -> Done(move_S(f))
    [] move = <<"E">> -> Done(move_E(f))
    [] move = <<"r">> -> Done(move_r(f))
    [] move = <<"l">> -> Done(move_l(f))
    [] move = <<"u">> -> Done(move_u(f))
    [] move = <<"d">> -> Done(move_d(f))
    [] move = <<"f">> -> Done(move_f(f))
    [] move = <<"b">> -> Done(move_b(f))
    [] move = <<"x">> -> Done(move_x(f))
    [] move = <<"y">> -> Done(move_y(f))
    [] move = <<"z">> -> Done(move_z(f))
    [] OTHER -> Raised(f)

\* for _ in range(times): self._apply_single_move(base_move), from the
\* result r of the turns made so far; a turn that raises ends the loop.
RECURSIVE RepeatSingle(_, _, _)
RepeatSingle(r, base_move, times) ==
  IF times = 0 \/ ~r.ok THEN r
  ELSE RepeatSingle(apply_single_move(r.faces, base_move), base_move, times - 1)

\* apply_move turning once for the modifier 2.
apply_move_double_once(f, move) ==
  LET prime == EndsWith(move, "'")
      double == ~prime /\ EndsWith(move, "2")
  IN  RepeatSingle(Done(f),
                   IF prime \/ double THEN DropLast(move) ELSE move,
                   IF prime THEN 3 ELSE 1)

\* apply_move reading a token of three characters or more by its first
\* character, turned twice.
apply_move_by_letter(f, move) ==
  LET prime == EndsWith(move, "'")
      double == ~prime /\ EndsWith(move, "2")
  IN  IF Len(move) >= 3 THEN RepeatSingle(Done(f), <<move[1]>>, 2)
      ELSE RepeatSingle(Done(f),
                        IF prime \/ double THEN DropLast(move) ELSE move,
                        IF prime THEN 3 ELSE IF double THEN 2 ELSE 1)

apply_move(f, move) ==
  LET prime == EndsWith(move, "'")
      double == ~prime /\ EndsWith(move, "2")
  IN  RepeatSingle(Done(f),
                   IF prime \/ double THEN DropLast(move) ELSE move,
                   IF prime THEN 3 ELSE IF double THEN 2 ELSE 1)

\* The loop going on to the next move after one has raised.
RECURSIVE ApplyMoves_skip(_, _, _)
ApplyMoves_skip(r, moves, i) ==
  IF i > Len(moves) THEN r
  ELSE ApplyMoves_skip([ok |-> r.ok /\ apply_move(r.faces, moves[i]).ok,
                        faces |-> apply_move(r.faces, moves[i]).faces],
                       moves, i + 1)

\* for move in moves: self.apply_move(move), from the result r of the moves
\* made so far; a move that raises ends the loop.
RECURSIVE ApplyMoves(_, _, _)
ApplyMoves(r, moves, i) ==
  IF i > Len(moves) \/ ~r.ok THEN r
  ELSE ApplyMoves(apply_move(r.faces, moves[i]), moves, i + 1)

apply_algorithm(f, algorithm) ==
  ApplyMoves(Done(f), parse_algorithm(algorithm), 1)

copy(f) == [face \in DOMAIN f |-> [i \in 1..9 |-> f[face][i]]]

get_state_string(f) == Join(<<f.U, f.D, f.F, f.B, f.L, f.R>>)

\* Top (9) + front top row (3) + right top row (3).
get_visible_stickers(f) ==
  f.U \o <<St(f, "F", 0), St(f, "F", 1), St(f, "F", 2)>>
      \o <<St(f, "R", 0), St(f, "R", 1), St(f, "R", 2)>>

(* ------------------------- cube-engine run ----------------------------- *)

VARIABLES
  faces,         \* Cube.faces of the cube under test
  raised,        \* the last call on the cube ended in ValueError
  steps,         \* apply_algorithm calls made so far
  call,          \* the last call: [op, arg, n], n = its place in its run
  origin,        \* faces before the first call of the current run
  lookup_table,  \* StateResolver.lookup_table: key -> entry
  pc,            \* "build" while _build_lookup_table runs, then "ready"
  loop,          \* the iteration of the build loops that comes next
  state_count,   \* _build_lookup_table's counter of stored states
  produced,      \* the key each finished iteration computed, in order
  query,         \* the last match_state call and what it gave
  answer,        \* the last solve call and the paths it returned
  set_tables,    \* the solver's resolver: set name -> table of the set
  corner_tables, \* StateReconstructor's three corner tables
  reconstruction, \* the last reconstruct call and what it gave
  detection,     \* the last detect_phase or detect_phase_full call
  pipeline,      \* pipeline.py's two caches and what its getters returned
  clone          \* the cube Cube.copy returned, and the lists it shares

cubeVars == <<faces, raised, steps, call, origin>>
resolverVars == <<lookup_table, pc, loop, state_count, produced, query>>
solverVars == <<answer, set_tables>>
reconVars == <<corner_tables, reconstruction>>
detectorVars == <<detection>>
pipelineVars == <<pipeline>>
copyVars == <<clone>>
vars ==
  <<cubeVars, resolverVars, solverVars, reconVars, detectorVars,
    pipelineVars, copyVars>>

BaseLetters ==
  <<"R", "L", "U", "D", "F", "B", "M", "S", "E",
    "r", "l", "u", "d", "f", "b", "x", "y", "z">>

\* The 18 x 3 move tokens.
LegalTokens ==
  UNION {{<<BaseLetters[i]>>, <<BaseLetters[i], "'">>, <<BaseLetters[i], "2">>}
         : i \in 1..Len(BaseLetters)}

\* Tokens apply_move is handed that are none of the 54.
InvalidTokens ==
  {<<>>, <<"'">>, <<"2">>, <<"X">>, <<"Q", "'">>, <<"w", "2">>,
   <<"R", "3">>, <<"R", "2", "'">>, <<"R", "'", "2">>, <<"R", "U">>,
   <<"2", "R">>, <<"U", "2", "2">>}

TokenInputs == LegalTokens \cup InvalidTokens

\* Algorithm strings apply_algorithm is handed: catalogue cases, short
\* sequences, the empty string, and strings with an unknown token at the
\* first, a middle and the last position.
AlgInputs ==
  {PLL_CASES[1][2], PLL_CASES[2][2], PLL_CASES[8][2], OLL_CASES[2][2],
   OLL_CASES[12][2],
   <<>>,
   <<"R", " ", " ", "U", "2", " ">>,
   <<"B", " ", "L", "'", " ", "z", "2">>,
   <<"b", "'", " ", "D", " ", "S">>,
   <<"Q", " ", "R", " ", "U">>,
   <<"R", " ", "U", "3", " ", "F", " ", "D", "'">>,
   <<"F", "'", " ", "l", "2", " ", "E", " ", "R", "'", "2">>}

NoCall == [op |-> "none", arg |-> <<>>, n |-> 0]

CubeStart ==
  /\ faces = CubeInit
  /\ raised = FALSE
  /\ steps = 0
  /\ call = NoCall
  /\ origin = CubeInit

\* The caller repeats the move it has just made: a run of up to four.
Repeats(move) ==
  call.op = "apply_move" /\ call.arg = move /\ ~raised /\ call.n < 4

\* Only apply_algorithm calls so far: the cube is still being set up.
SettingUp == call.op \in {"none", "apply_algorithm"}

\* A call returns or raises, r.faces the cube as it leaves it.
Returns(r) == faces' = r.faces /\ raised' = ~r.ok

\* cube.apply_move(move)
ApplyMove(move) ==
  /\ SettingUp \/ Repeats(move)
  /\ Returns(apply_move(faces, move))
  /\ call' = [op |-> "apply_move", arg |-> move,
              n |-> IF Repeats(move) THEN call.n + 1 ELSE 1]
  /\ origin' = IF Repeats(move) THEN origin ELSE faces
  /\ UNCHANGED <<steps, resolverVars, solverVars, reconVars, detectorVars, pipelineVars, copyVars>>

\* cube.apply_algorithm(algorithm)
ApplyAlgorithm(algorithm) ==
  /\ SettingUp /\ steps < MaxSteps
  /\ Returns(apply_algorithm(faces, algorithm))
  /\ call' = [op |-> "apply_algorithm", arg |-> algorithm, n |-> 1]
  /\ origin' = faces
  /\ steps' = steps + 1
  /\ UNCHANGED <<resolverVars, solverVars, reconVars, detectorVars, pipelineVars, copyVars>>

\* solver.inverse_algorithm
RECURSIVE InvertMoves(_, _)
InvertMoves(moves, i) ==
  IF i = 0 THEN <<>>
  ELSE LET move == moves[i]
           inv == IF EndsWith(move, "'") THEN DropLast(move)
                  ELSE IF EndsWith(move, "2") THEN move
                  ELSE move \o <<"'">>
       IN  <<inv>> \o InvertMoves(moves, i - 1)

inverse_algorithm(alg_string) ==
  LET moves == parse_algorithm(alg_string)
  IN  IF moves = <<>> THEN <<>>
      ELSE JoinWith(" ", InvertMoves(moves, Len(moves)))

\* cube.apply_algorithm(inverse_algorithm(A)) right after apply_algorithm(A)
ApplyInverse ==
  /\ call.op = "apply_algorithm" /\ ~raised
  /\ Returns(apply_algorithm(faces, inverse_algorithm(call.arg)))
  /\ call' = [op |-> "apply_inverse", arg |-> call.arg, n |-> 2]
  /\ UNCHANGED <<origin, steps, resolverVars, solverVars, reconVars, detectorVars, pipelineVars, copyVars>>

ResolverIdle ==
  /\ lookup_table = <<>>
  /\ pc = "idle"
  /\ loop = [o |-> 0, oll |-> 0, p |-> 0, r |-> 0]
  /\ state_count = 0
  /\ produced = <<>>
  /\ query = [made |-> FALSE]

SolverIdle == answer = [made |-> FALSE] /\ set_tables = <<>>

\* No StateReconstructor built, no PhaseDetector called.
ReconIdle ==
  /\ corner_tables = <<>>
  /\ reconstruction = [made |-> FALSE]

DetectorIdle == detection = [made |-> FALSE]

\* pipeline.py just imported: both caches None, no getter called yet. An
\* instance is known by its number in the order of construction.
PipelineIdle ==
  pipeline = [resolver_cache |-> 0, solver_cache |-> 0, built |-> <<>>,
              returned |-> <<>>]

\* No copy of the cube made.
CopyIdle == clone = [made |-> FALSE]

CubeEngineInit ==
  CubeStart /\ ResolverIdle /\ SolverIdle /\ ReconIdle /\ DetectorIdle /\ PipelineIdle /\ CopyIdle

CubeEngineNext ==
  \/ \E move \in TokenInputs : ApplyMove(move)
  \/ \E algorithm \in AlgInputs : ApplyAlgorithm(algorithm)
  \/ ApplyInverse

SpecCube == CubeEngineInit /\ [][CubeEngineNext]_vars

(* --------------------------- cube claims ------------------------------ *)

\* The number of stickers of colour c among the 54.
ColorCount(f, c) ==
  LET s == f.U \o f.D \o f.F \o f.B \o f.L \o f.R
  IN  Cardinality({i \in 1..Len(s) : s[i] = c})

\* C2: after any sequence of calls on a cube created solved, each of the six
\* colours is on exactly 9 of the 54 stickers.
C2_ColorConservation == \A c \in Colors : ColorCount(faces, c) = 9

C2_Witness ==
  /\ steps = MaxSteps /\ ~raised
  /\ call.op = "apply_move" /\ call.n = 3
  /\ faces # origin /\ origin # CubeInit

\* C3: four applications in a row of one base letter leave the cube as it was
\* before the first of them.
C3_Order4 ==
  (call.op = "apply_move" /\ Len(call.arg) = 1 /\ ~raised /\ call.n = 4)
    => faces = origin

\* C4: apply_algorithm(A) followed by apply_algorithm(inverse_algorithm(A)),
\* A made of legal tokens, leaves the cube as it was before A.
C4_InverseLaw == (call.op = "apply_inverse") => (~raised /\ faces = origin)

\* C5: apply_move succeeds on each of the 54 tokens and raises on any other.
C5_LegalTokens ==
  (call.op = "apply_move") => (raised <=> call.arg \notin LegalTokens)

C5_Witness ==
  /\ call.op = "apply_move" /\ call.arg = <<"R", "2", "'">> /\ raised
  /\ steps = MaxSteps /\ faces # CubeInit

\* The place of the first token that is none of the 54, 0 when there is none.
FirstInvalid(moves) ==
  IF \A k \in 1..Len(moves) : moves[k] \in LegalTokens THEN 0
  ELSE CHOOSE k \in 1..Len(moves) :
         /\ moves[k] \notin LegalTokens
         /\ \A j \in 1..(k - 1) : moves[j] \in LegalTokens

\* The cube after apply_move of each of the first k tokens, in order.
RECURSIVE AfterFirst(_, _, _)
AfterFirst(f, moves, k) ==
  IF k = 0 THEN f
  ELSE apply_move(AfterFirst(f, moves, k - 1), moves[k]).faces

\* C6: apply_algorithm raises at the first invalid token, at place k, and
\* leaves the cube as the first k-1 moves made it.
C6_PartialFailure ==
  LET moves == parse_algorithm(call.arg)
      k == FirstInvalid(moves)
  IN  (call.op = "apply_algorithm" /\ k > 0)
        => (raised /\ faces = AfterFirst(origin, moves, k - 1))

C6_Witness ==
  LET moves == parse_algorithm(call.arg)
  IN  /\ call.op = "apply_algorithm" /\ raised
      /\ FirstInvalid(moves) = 2 /\ Len(moves) = 4
      /\ faces # origin /\ origin # CubeInit

(* ------------------------------ resolver ------------------------------ *)

\* The cases the build loops run over: the first MaxOLL OLL cases, and the
\* first MaxPLL - 1 PLL cases followed by the catalogue's last one, "Solved".
OllCases == SubSeq(OLL_CASES, 1, MaxOLL)
PllCases == SubSeq(PLL_CASES, 1, MaxPLL - 1) \o <<PLL_CASES[Len(PLL_CASES)]>>

rotation_sequences ==
  <<<<>>,
    <<"y">>,
    <<"y","2">>,
    <<"y","'">>,
    <<"x","2">>,
    <<"x","2"," ","y">>,
    <<"x","2"," ","y","2">>,
    <<"x","2"," ","y","'">>,
    <<"x","'">>,
    <<"x","'"," ","y">>,
    <<"x","'"," ","y","2">>,
    <<"x","'"," ","y","'">>,
    <<"x">>,
    <<"x"," ","y">>,
    <<"x"," ","y","2">>,
    <<"x"," ","y","'">>,
    <<"z","'">>,
    <<"z","'"," ","y">>,
    <<"z","'"," ","y","2">>,
    <<"z","'"," ","y","'">>,
    <<"z">>,
    <<"z"," ","y">>,
    <<"z"," ","y","2">>,
    <<"z"," ","y","'">>>>

\* _get_all_orientations with one cube made before the loop: each sequence
\* turns the cube the sequences before it have turned.
get_all_orientations_one_cube ==
  [i \in 1..Len(rotation_sequences) |->
     apply_algorithm(CubeInit,
                     JoinWith(" ", SelectSeq(SubSeq(rotation_sequences, 1, i),
                                             LAMBDA seq : seq # <<>>))).faces]

\* StateResolver._get_all_orientations: a solved cube turned by each sequence.
get_all_orientations ==
  [i \in 1..Len(rotation_sequences) |->
     IF rotation_sequences[i] # <<>>
     THEN apply_algorithm(CubeInit, rotation_sequences[i]).faces
     ELSE CubeInit]

\* for rotation in ['', 'y', 'y2', "y'"]
Rotations == << <<>>, <<"y">>, <<"y", "2">>, <<"y", "'">> >>

\* ''.join(visible): the stickers, each a one-character string, concatenated.
KeyOf(visible) == Join([i \in 1..Len(visible) |-> <<visible[i]>>])

\* The place in the nested loops of _build_lookup_table: base orientation o,
\* OLL case oll (0 in the first inner loop, the PLL-only one), PLL case p,
\* rotation r.
FirstLoop == [o |-> 1, oll |-> 0, p |-> 1, r |-> 1]

NextLoop(it) ==
  IF it.r < Len(Rotations) THEN [it EXCEPT !.r = @ + 1]
  ELSE IF it.p < Len(PllCases) THEN [it EXCEPT !.p = @ + 1, !.r = 1]
  ELSE IF it.oll < Len(OllCases) THEN [it EXCEPT !.oll = @ + 1, !.p = 1, !.r = 1]
  ELSE [o |-> it.o + 1, oll |-> 0, p |-> 1, r |-> 1]

\* cube.copy(), and apply_algorithm(alg) on the copy if alg is not empty.
CopyApplied(f, alg) ==
  IF alg # <<>> THEN apply_algorithm(copy(f), alg).faces ELSE copy(f)

\* state_cube with the PLL case's algorithm never applied.
StateCube_without_pll(it) ==
  IF it.oll = 0 THEN copy(get_all_orientations[it.o])
  ELSE CopyApplied(get_all_orientations[it.o], OllCases[it.oll][2])

\* state_cube of iteration it: the base orientation after the OLL case's
\* algorithm (in the second inner loop) and the PLL case's.
StateCube(it) ==
  CopyApplied(IF it.oll = 0 THEN get_all_orientations[it.o]
              ELSE CopyApplied(get_all_orientations[it.o], OllCases[it.oll][2]),
              PllCases[it.p][2])

\* rotated_cube left as the copy of state_cube, the rotation not applied.
RotatedCube_unrotated(it) == copy(StateCube(it))

\* rotated_cube of iteration it.
RotatedCube(it) == CopyApplied(StateCube(it), Rotations[it.r])

\* The dictionary iteration it stores under its key.
EntryOf(it, visible) ==
  LET oll_name == IF it.oll = 0 THEN "OLL Skip" ELSE OllCases[it.oll][1]
      pll_name == PllCases[it.p][1]
  IN  [oll_case |-> oll_name,
       pll_case |-> pll_name,
       combined_name |-> oll_name \o " + " \o pll_name,
       oll_algorithm |-> IF it.oll = 0 THEN <<>> ELSE OllCases[it.oll][2],
       pll_algorithm |-> PllCases[it.p][2],
       rotation |-> Rotations[it.r],
       visible_stickers |-> visible]

\* Store overwriting the entry a key has.
Store_overwrite(table, key, entry) ==
  IF key \in DOMAIN table THEN [table EXCEPT ![key] = entry]
  ELSE table @@ (key :> entry)

\* if visible_key not in self.lookup_table: self.lookup_table[visible_key] = ...
Store(table, key, entry) ==
  IF key \notin DOMAIN table THEN table @@ (key :> entry) ELSE table

\* An OLL case with an empty algorithm is passed over.
Skipped(it) == it.oll > 0 /\ OllCases[it.oll][2] = <<>>

\* The table after the innermost loop body has run at it with the stickers
\* visible, in either inner loop.
AfterPass(table, it, visible) ==
  IF Skipped(it) THEN table
  ELSE Store(table, KeyOf(visible), EntryOf(it, visible))

\* The innermost loop body at the place loop, its key visible_key.
Pass(visible, visible_key) ==
  /\ lookup_table' = AfterPass(lookup_table, loop, visible)
  /\ state_count' =
        IF Skipped(loop) \/ visible_key \in DOMAIN lookup_table
        THEN state_count ELSE state_count + 1
  /\ produced' =
        IF Skipped(loop) THEN produced
        ELSE Append(produced, [key |-> visible_key, at |-> loop])

\* One pass of the innermost loop body.
BuildStep ==
  /\ pc = "build" /\ loop.o <= Len(rotation_sequences)
  /\ Pass(get_visible_stickers(RotatedCube(loop)),
          KeyOf(get_visible_stickers(RotatedCube(loop))))
  /\ loop' = NextLoop(loop)
  /\ UNCHANGED <<pc, query, cubeVars, solverVars, reconVars, detectorVars, pipelineVars, copyVars>>

\* The loops are over: StateResolver() returns.
BuildDone ==
  /\ pc = "build" /\ loop.o > Len(rotation_sequences)
  /\ pc' = "ready"
  /\ UNCHANGED <<lookup_table, loop, state_count, produced, query,
                 cubeVars, solverVars, reconVars, detectorVars, pipelineVars, copyVars>>

\* match_state without the length check.
match_state_unchecked(table, detected_stickers) ==
  LET visible_key == KeyOf(detected_stickers)
  IN  IF visible_key \in DOMAIN table
      THEN [raised |-> FALSE, found |-> TRUE, entry |-> table[visible_key]]
      ELSE [raised |-> FALSE, found |-> FALSE, entry |-> <<>>]

\* match_state indexing the dictionary without the membership test: a
\* KeyError on an absent key.
match_state_indexing(table, detected_stickers) ==
  IF Len(detected_stickers) # 15
  THEN [raised |-> TRUE, found |-> FALSE, entry |-> <<>>]
  ELSE LET visible_key == KeyOf(detected_stickers)
       IN  IF visible_key \in DOMAIN table
           THEN [raised |-> FALSE, found |-> TRUE, entry |-> table[visible_key]]
           ELSE [raised |-> TRUE, found |-> FALSE, entry |-> <<>>]

\* StateResolver.match_state: the entry, None, or ValueError.
match_state(table, detected_stickers) ==
  IF Len(detected_stickers) # 15
  THEN [raised |-> TRUE, found |-> FALSE, entry |-> <<>>]
  ELSE LET visible_key == KeyOf(detected_stickers)
       IN  IF visible_key \in DOMAIN table
           THEN [raised |-> FALSE, found |-> TRUE, entry |-> table[visible_key]]
           ELSE [raised |-> FALSE, found |-> FALSE, entry |-> <<>>]

\* The passes of the innermost loop bodies of _build_lookup_table, numbered
\* in the order the loops make them.
PassesPerOrientation ==
  (Len(PllCases) + Len(OllCases) * Len(PllCases)) * Len(Rotations)

PassCount == Len(rotation_sequences) * PassesPerOrientation

\* The place in the loops of pass n.
LoopAt(n) ==
  LET m == (n - 1) % PassesPerOrientation
      per_oll == Len(PllCases) * Len(Rotations)
  IN  [o |-> ((n - 1) \div PassesPerOrientation) + 1,
       oll |-> m \div per_oll,
       p |-> ((m % per_oll) \div Len(Rotations)) + 1,
       r |-> (m % Len(Rotations)) + 1]

\* visible_key of each pass.
PassKeys ==
  [n \in 1..PassCount |-> KeyOf(get_visible_stickers(RotatedCube(LoopAt(n))))]

\* The passes that are made: not those of an OLL case with an empty algorithm.
PassesMade == {n \in 1..PassCount : ~Skipped(LoopAt(n))}

\* The first of the passes made whose key is visible_key.
FirstPass(keys, made, visible_key) ==
  CHOOSE n \in made :
    /\ keys[n] = visible_key
    /\ \A m \in made : keys[m] = visible_key => n <= m

\* The entry pass n stores if its key has none.
PassEntry(n) ==
  EntryOf(LoopAt(n), get_visible_stickers(RotatedCube(LoopAt(n))))

\* The table the passes leave: a pass stores its entry only if its key has
\* none, so each key holds the entry of the first pass that made it.
TableOf(keys, made, entries) ==
  [visible_key \in {keys[n] : n \in made} |->
     entries[FirstPass(keys, made, visible_key)]]

\* The entry of each pass made.
PassEntries == [n \in PassesMade |-> PassEntry(n)]

\* The table _build_lookup_table leaves.
build_lookup_table == TableOf(PassKeys, PassesMade, PassEntries)

\* The AUF turns a looked-up cube may have had after its case's algorithm.
AufTurns ==
  {<<>>, <<"U">>, <<"U", "2">>, <<"U", "'">>,
   <<"y">>, <<"y", "2">>, <<"y", "'">>}

\* The visible stickers of a solved cube after a case's algorithm and an AUF.
CaseStickers(alg, auf) ==
  get_visible_stickers(
    apply_algorithm(apply_algorithm(CubeInit, alg).faces, auf).faces)

RoundTripInputs ==
  {CaseStickers(OllCases[i][2], auf) : i \in 1..Len(OllCases), auf \in AufTurns}
  \cup
  {CaseStickers(PllCases[i][2], auf) : i \in 1..Len(PllCases), auf \in AufTurns}

WrongLengthInputs ==
  {<<>>, <<"W", "Y", "R">>, [i \in 1..10 |-> "W"], [i \in 1..14 |-> "W"],
   [i \in 1..16 |-> "W"], [i \in 1..20 |-> "W"],
   get_visible_stickers(CubeInit) \o <<"B">>,
   SubSeq(get_visible_stickers(CubeInit), 1, 14)}

\* 15 stickers of no last-layer state: an unknown colour, one colour only,
\* and cubes with the first two layers disturbed.
UnknownInputs ==
  {[i \in 1..15 |-> "X"], [i \in 1..15 |-> "W"],
   get_visible_stickers(apply_algorithm(CubeInit, <<"R", " ", "U", " ", "R", "'">>).faces),
   get_visible_stickers(apply_algorithm(CubeInit, <<"F", " ", "D", "2">>).faces)}

\* resolver.match_state(detected_stickers)
MatchState(detected_stickers) ==
  /\ pc = "ready"
  /\ LET m == match_state(lookup_table, detected_stickers)
     IN  query' = [made |-> TRUE, stickers |-> detected_stickers,
                   raised |-> m.raised, found |-> m.found, entry |-> m.entry]
  /\ UNCHANGED <<lookup_table, pc, loop, state_count, produced,
                 cubeVars, solverVars, reconVars, detectorVars, pipelineVars, copyVars>>

ResolverInit ==
  /\ lookup_table = <<>>
  /\ pc = "build"
  /\ loop = FirstLoop
  /\ state_count = 0
  /\ produced = <<>>
  /\ query = [made |-> FALSE]
  /\ CubeStart /\ SolverIdle /\ ReconIdle /\ DetectorIdle /\ PipelineIdle /\ CopyIdle

ResolverNext ==
  \/ BuildStep
  \/ BuildDone
  \/ \E s \in RoundTripInputs \cup WrongLengthInputs \cup UnknownInputs :
       MatchState(s)

SpecResolver == ResolverInit /\ [][ResolverNext]_vars

(* -------------------------- resolver claims --------------------------- *)

\* The loops over, the table is the one build_lookup_table names.
TableIsBuilt == pc = "ready" => lookup_table = build_lookup_table

\* The first iteration that computed key.
FirstAt(key) ==
  LET at == {i \in 1..Len(produced) : produced[i].key = key}
  IN  CHOOSE i \in at : \A j \in at : i <= j

\* The entry the first iteration that computed key stores.
FirstEntry(key) == EntryOf(produced[FirstAt(key)].at, [i \in 1..Len(key) |-> key[i]])

\* C7: an entry is never replaced: the key an iteration has just computed
\* holds the entry of the first iteration that computed it, and so does every
\* key of the finished table.
C7_FirstWriterWins ==
  /\ produced # <<>> =>
       LET key == produced[Len(produced)].key
       IN  key \in DOMAIN lookup_table /\ lookup_table[key] = FirstEntry(key)
  /\ (pc = "ready" /\ ~query.made) =>
       /\ DOMAIN lookup_table = {produced[i].key : i \in 1..Len(produced)}
       /\ \A key \in DOMAIN lookup_table : lookup_table[key] = FirstEntry(key)

\* An iteration has just computed a key an earlier one stored, with another
\* entry, which the table still holds.
C7_Witness ==
  /\ pc = "build" /\ produced # <<>>
  /\ LET last == produced[Len(produced)]
     IN  /\ FirstAt(last.key) < Len(produced)
         /\ EntryOf(last.at, last.key) # lookup_table[last.key]
         /\ last.at.oll > 0

\* C8: the visible stickers of a solved cube after a case's algorithm and an
\* AUF are found by match_state.
C8_RoundTrip ==
  (query.made /\ query.stickers \in RoundTripInputs)
    => (~query.raised /\ query.found)

C8_Witness ==
  /\ query.made /\ query.found
  /\ query.stickers = CaseStickers(OllCases[1][2], <<"U", "'">>)

C10_UnknownKey ==
  (query.made /\ Len(query.stickers) = 15
     /\ KeyOf(query.stickers) \notin DOMAIN lookup_table)
    => (~query.raised /\ ~query.found)

C10_Witness ==
  /\ query.made /\ ~query.raised /\ ~query.found
  /\ query.stickers \in UnknownInputs /\ query.stickers[1] # "X"
  /\ Len(query.stickers) = 15

(* --------------------------- phase detector --------------------------- *)

\* OPPOSITE_COLOR.get(color): None for a colour the dictionary has not.
OPPOSITE_COLOR(color) ==
  CASE color = "W" -> "Y" [] color = "Y" -> "W"
    [] color = "R" -> "O" [] color = "O" -> "R"
    [] color = "G" -> "B" [] color = "B" -> "G"
    [] OTHER -> "None"

\* PhaseResult; the confidence in hundredths.
PhaseResult(phase, applicable_sets, confidence) ==
  [phase |-> phase, applicable_sets |-> applicable_sets,
   confidence |-> confidence]

\* sum(1 for s in stickers if s == color)
Matching(stickers, color) ==
  Cardinality({i \in 1..Len(stickers) : stickers[i] = color})

\* A call that ended in an exception instead of a PhaseResult.
NoResult == [raised |-> TRUE]

\* detect_phase without its length check: top[4] raises IndexError on a short
\* list, and any other list is classified by its top face.
detect_phase_unchecked(visible_stickers) ==
  IF Len(visible_stickers) < 5 THEN NoResult
  ELSE IF Matching(SubSeq(visible_stickers, 1, Len(visible_stickers)),
                   visible_stickers[5]) = Len(visible_stickers)
  THEN PhaseResult("pll", <<"PLL">>, 95)
  ELSE PhaseResult("oll", <<"OLL", "OLLCP">>, 90)

\* detect_phase without the branch for uniform side rows: an oriented top
\* face is always reported as pll.
detect_phase_pll_only(visible_stickers) ==
  IF Len(visible_stickers) # 15 THEN PhaseResult("unknown", <<>>, 0)
  ELSE IF OPPOSITE_COLOR(visible_stickers[5]) \in
            {visible_stickers[i] : i \in 1..15}
  THEN PhaseResult("f2l_partial", <<"F2L">>, 70)
  ELSE IF Matching(SubSeq(visible_stickers, 1, 9), visible_stickers[5]) = 9
  THEN PhaseResult("pll", <<"PLL">>, 95)
  ELSE PhaseResult("oll", <<"OLL", "OLLCP">>, 90)

\* PhaseDetector.detect_phase
detect_phase(visible_stickers) ==
  IF Len(visible_stickers) # 15 THEN PhaseResult("unknown", <<>>, 0)
  ELSE
  LET top == SubSeq(visible_stickers, 1, 9)
      front_row == SubSeq(visible_stickers, 10, 12)
      right_row == SubSeq(visible_stickers, 13, 15)
      top_center == top[5]
      bottom_color == OPPOSITE_COLOR(top_center)
      has_bottom_color ==
        /\ bottom_color # "None"
        /\ \E i \in 1..15 : visible_stickers[i] = bottom_color
      top_matching == Matching(top, top_center)
      top_edges == <<top[2], top[4], top[6], top[8]>>
      edges_matching == Matching(top_edges, top_center)
      front_uniform == Cardinality({front_row[i] : i \in 1..3}) = 1
      right_uniform == Cardinality({right_row[i] : i \in 1..3}) = 1
      all_different ==
        Cardinality({top_center, front_row[1], right_row[1]}) = 3
  IN  IF has_bottom_color THEN PhaseResult("f2l_partial", <<"F2L">>, 70)
      ELSE IF top_matching = 9
      THEN IF front_uniform /\ right_uniform /\ all_different
           THEN PhaseResult("solved", <<>>, 90)
           ELSE PhaseResult("pll", <<"PLL">>, 95)
      ELSE IF edges_matching = 4
      THEN PhaseResult("oll_edges_oriented", <<"COLL", "ZBLL">>, 90)
      ELSE PhaseResult("oll", <<"OLL", "OLLCP">>, 90)

\* all(len(set(f)) == 1 for f in cube.faces.values())
AllUniform(f) ==
  \A X \in FaceNames : \A i \in 0..8 : St(f, X, i) = St(f, X, 0)

\* Cube.is_solved: every face of one colour.
is_solved(f) == AllUniform(f)

\* Cube.is_cross_solved: the four D edges show the D centre and the bottom
\* edge sticker of each side face shows that face's centre.
is_cross_solved(f) ==
  /\ \A i \in {1, 3, 5, 7} : St(f, "D", i) = St(f, "D", 4)
  /\ \A X \in {"F", "R", "B", "L"} : St(f, X, 7) = St(f, X, 4)

\* The stickers of a first-two-layer slot: its corner on D and the two side
\* faces, and its edge on the two side faces.
SlotStickers(slot) ==
  CASE slot = "FR" -> <<<<"D", 2>>, <<"F", 8>>, <<"R", 6>>, <<"F", 5>>, <<"R", 3>>>>
    [] slot = "FL" -> <<<<"D", 0>>, <<"F", 6>>, <<"L", 8>>, <<"F", 3>>, <<"L", 5>>>>
    [] slot = "BR" -> <<<<"D", 8>>, <<"B", 6>>, <<"R", 8>>, <<"B", 3>>, <<"R", 5>>>>
    [] slot = "BL" -> <<<<"D", 6>>, <<"B", 8>>, <<"L", 6>>, <<"B", 5>>, <<"L", 3>>>>

\* Cube._is_pair_solved: each sticker of the slot shows its face's centre.
is_pair_solved(f, slot) ==
  \A k \in 1..5 :
    LET s == SlotStickers(slot)[k] IN St(f, s[1], s[2]) = St(f, s[1], 4)

Slots == <<"FR", "FL", "BR", "BL">>

\* Cube.get_unsolved_slots
get_unsolved_slots(f) == SelectSeq(Slots, LAMBDA slot : ~is_pair_solved(f, slot))

\* Cube.count_solved_pairs
count_solved_pairs(f) == Len(Slots) - Len(get_unsolved_slots(f))

\* Cube.is_f2l_solved: the cross and the four pairs.
is_f2l_solved(f) == is_cross_solved(f) /\ get_unsolved_slots(f) = <<>>

\* Cube.is_ll_edges_oriented: the four U edges show the U centre.
is_ll_edges_oriented(f) ==
  \A i \in {1, 3, 5, 7} : St(f, "U", i) = St(f, "U", 4)

\* PhaseDetector.detect_phase_full
detect_phase_full(f) ==
  IF is_solved(f) THEN PhaseResult("solved", <<>>, 100)
  ELSE IF is_f2l_solved(f)
  THEN IF is_ll_edges_oriented(f)
       THEN IF \A i \in 0..8 : St(f, "U", i) = St(f, "U", 4)
            THEN PhaseResult("pll", <<"PLL">>, 100)
            ELSE PhaseResult("oll_edges_oriented", <<"COLL", "ZBLL">>, 100)
       ELSE PhaseResult("oll", <<"OLL", "OLLCP">>, 100)
  ELSE IF is_cross_solved(f)
  THEN IF count_solved_pairs(f) = 3
       THEN PhaseResult("f2l_last_pair", <<"F2L", "ZBLS">>, 100)
       ELSE PhaseResult("f2l_partial", <<"F2L">>, 100)
  ELSE PhaseResult("f2l_partial", <<>>, 80)

(* ----------------------- resolver of the solver ----------------------- *)

\* The cases of a set: the other sets come from a database file the
\* repository does not hold and are empty.
SetCases(set_name) ==
  CASE set_name = "PLL" -> PllCases
    [] set_name = "OLL" -> OllCases
    [] OTHER -> <<>>

\* The passes of the table of one set, numbered in their order: orientations,
\* then the cases of the set, then the AUF rotations.
SetLoopAt(set_name, n) ==
  LET per_orientation == Len(SetCases(set_name)) * Len(Rotations)
      m == (n - 1) % per_orientation
  IN  [o |-> ((n - 1) \div per_orientation) + 1,
       c |-> (m \div Len(Rotations)) + 1,
       r |-> (m % Len(Rotations)) + 1]

\* The key of a pass: the case's algorithm on the orientation, then the
\* rotation.
SetKey(set_name, it) ==
  LET alg == SetCases(set_name)[it.c][2]
      state_cube == IF alg # <<>>
                    THEN apply_algorithm(get_all_orientations[it.o], alg).faces
                    ELSE get_all_orientations[it.o]
  IN  KeyOf(get_visible_stickers(
        IF Rotations[it.r] # <<>>
        THEN apply_algorithm(state_cube, Rotations[it.r]).faces
        ELSE state_cube))

\* The passes of the table of a set and their keys.
SetPasses(set_name) ==
  1..(Len(rotation_sequences) * Len(SetCases(set_name)) * Len(Rotations))

SetKeys(set_name) ==
  [n \in SetPasses(set_name) |-> SetKey(set_name, SetLoopAt(set_name, n))]

\* The record pass n of a set stores.
SetEntry(set_name, it) ==
  [set_name |-> set_name, case |-> SetCases(set_name)[it.c][1],
   algorithm |-> SetCases(set_name)[it.c][2], rotation |-> Rotations[it.r]]

PllEntry(n) == SetEntry("PLL", SetLoopAt("PLL", n))
OllEntry(n) == SetEntry("OLL", SetLoopAt("OLL", n))

\* The tables of the sets, first writer wins.
pll_keys == SetKeys("PLL")
oll_keys == SetKeys("OLL")

pll_entries == [n \in SetPasses("PLL") |-> PllEntry(n)]
oll_entries == [n \in SetPasses("OLL") |-> OllEntry(n)]

pll_table == TableOf(pll_keys, SetPasses("PLL"), pll_entries)
oll_table == TableOf(oll_keys, SetPasses("OLL"), oll_entries)

\* ExpandedStateResolver.lookup: the matches of the key in the table of the
\* set, by exact key.
lookup(visible_stickers, set_name) ==
  LET visible_key == KeyOf(visible_stickers)
      table == IF set_name = "OLL_PLL" THEN lookup_table
               ELSE IF set_name \in DOMAIN set_tables THEN set_tables[set_name]
               ELSE <<>>
  IN  IF Len(visible_stickers) # 15
      THEN [raised |-> TRUE, matches |-> <<>>]
      ELSE [raised |-> FALSE,
            matches |-> IF visible_key \in DOMAIN table
                        THEN <<table[visible_key]>> ELSE <<>>]

(* ------------------------------- solver ------------------------------- *)

SolveStep(algorithm_set, case_name, algorithm, phase_before, phase_after) ==
  [algorithm_set |-> algorithm_set, case_name |-> case_name,
   algorithm |-> algorithm, move_count |-> Len(parse_algorithm(algorithm)),
   phase_before |-> phase_before, phase_after |-> phase_after]

RECURSIVE TotalMoves(_)
TotalMoves(path_steps) ==
  IF path_steps = <<>> THEN 0
  ELSE Head(path_steps).move_count + TotalMoves(Tail(path_steps))

SolvePath(path_steps, description) ==
  [steps |-> path_steps, total_moves |-> TotalMoves(path_steps),
   description |-> description]

\* Cube() after the algorithms, one apply_algorithm each.
RECURSIVE CubeAfter(_, _)
CubeAfter(f, algorithms) ==
  IF algorithms = <<>> THEN f
  ELSE CubeAfter(apply_algorithm(f, Head(algorithms)).faces, Tail(algorithms))

\* The paths the passes of a loop append, pass by pass.
Flatten(lists) ==
  LET appended[i \in 0..Len(lists)] ==
        IF i = 0 THEN <<>> ELSE appended[i - 1] \o lists[i]
  IN  appended[Len(lists)]

\* One pass of the loop of _find_direct_solutions: the path it appends for
\* a match, if any.
DirectPass(match, set_name, phase_before) ==
  IF match.algorithm = <<>> THEN <<>>
  ELSE IF AllUniform(CubeAfter(CubeInit,
                               <<match.algorithm,
                                 inverse_algorithm(match.algorithm)>>))
  THEN <<SolvePath(<<SolveStep(set_name, match.case,
                               inverse_algorithm(match.algorithm),
                               phase_before, "solved")>>,
                   match.case)>>
  ELSE <<>>

\* The matches of a lookup, each given to one pass of a finder's loop.
Matches(visible_stickers, set_name) ==
  lookup(visible_stickers, set_name).matches

\* CubeSolver._find_direct_solutions: the paths it appends.
find_direct_solutions(visible_stickers, set_name, phase_before) ==
  Flatten([i \in DOMAIN Matches(visible_stickers, set_name) |->
             DirectPass(Matches(visible_stickers, set_name)[i], set_name,
                        phase_before)])

\* result_phase.phase in ("pll", "ell") or
\* second_set in result_phase.applicable_sets
NeedsSecond(result_phase, second_set) ==
  \/ result_phase.phase \in {"pll", "ell"}
  \/ \E i \in 1..Len(result_phase.applicable_sets) :
       result_phase.applicable_sets[i] = second_set

\* The path of one step _find_two_step_solutions appends when the second
\* step is skipped. The arrow of the descriptions is written "->".
skip_path(match, first_set, phase_before, second_set) ==
  SolvePath(<<SolveStep(first_set, match.case,
                        inverse_algorithm(match.algorithm),
                        phase_before, "solved")>>,
            match.case \o " -> " \o second_set \o " Skip")

\* "ell" if second_set == "ELL" else "pll"
second_phase(second_set) == IF second_set = "ELL" THEN "ell" ELSE "pll"

\* One pass of "for second_match in second_matches": the path it appends,
\* if any.
SecondPass(match, second_match, first_set, phase_before, second_set) ==
  IF second_match.algorithm = <<>>
  THEN <<skip_path(match, first_set, phase_before, second_set)>>
  ELSE IF AllUniform(CubeAfter(CubeInit,
                               <<match.algorithm,
                                 inverse_algorithm(match.algorithm),
                                 inverse_algorithm(second_match.algorithm)>>))
  THEN <<SolvePath(
           <<SolveStep(first_set, match.case,
                       inverse_algorithm(match.algorithm),
                       phase_before, second_phase(second_set)),
             SolveStep(second_set, second_match.case,
                       inverse_algorithm(second_match.algorithm),
                       second_phase(second_set), "solved")>>,
           match.case \o " -> " \o second_match.case)>>
  ELSE <<>>

\* The rest of a pass of "for match in matches" once the first step is on
\* the cube and its phase is detected.
AfterFirstStep(match, cube, result_phase, first_set, phase_before, second_set) ==
  IF result_phase.phase = "solved"
  THEN <<skip_path(match, first_set, phase_before, second_set)>>
  ELSE IF NeedsSecond(result_phase, second_set)
  THEN Flatten([i \in DOMAIN Matches(get_visible_stickers(cube), second_set) |->
                  SecondPass(match,
                             Matches(get_visible_stickers(cube), second_set)[i],
                             first_set, phase_before, second_set)])
  ELSE <<>>

\* The first step on the cube: Cube() after the scramble and its inverse.
FirstStepOn(match, cube, first_set, phase_before, second_set) ==
  AfterFirstStep(match, cube, detect_phase_full(cube), first_set, phase_before,
                 second_set)

\* One pass of "for match in matches" of _find_two_step_solutions.
TwoStepPass(match, first_set, phase_before, second_set) ==
  IF match.algorithm = <<>> THEN <<>>
  ELSE FirstStepOn(match,
                   CubeAfter(CubeInit,
                             <<match.algorithm,
                               inverse_algorithm(match.algorithm)>>),
                   first_set, phase_before, second_set)

\* CubeSolver._find_two_step_solutions: the paths it appends.
find_two_step_solutions(visible_stickers, first_set, phase_before, second_set) ==
  Flatten([i \in DOMAIN Matches(visible_stickers, first_set) |->
             TwoStepPass(Matches(visible_stickers, first_set)[i], first_set,
                         phase_before, second_set)])

\* One pass of the loop of _find_combined_oll_pll_solutions.
CombinedPass(match, phase_before) ==
  LET pll_alg == match.pll_algorithm
      pll_solve == IF pll_alg # <<>> THEN inverse_algorithm(pll_alg) ELSE <<>>
      oll_solve == inverse_algorithm(match.oll_algorithm)
      pll_steps ==
        IF pll_alg # <<>>
        THEN <<SolveStep("PLL", match.pll_case, pll_solve, phase_before, "oll")>>
        ELSE <<>>
      oll_step ==
        SolveStep("OLL", match.oll_case, oll_solve,
                  IF pll_alg # <<>> THEN "oll" ELSE phase_before, "solved")
      description ==
        IF pll_alg = <<>> THEN match.oll_case
        ELSE IF match.pll_case # "Solved"
        THEN match.oll_case \o " -> " \o match.pll_case
        ELSE match.oll_case \o " -> " \o "PLL Skip"
  IN  IF match.oll_algorithm = <<>> THEN <<>>
      ELSE IF AllUniform(
                CubeAfter(CubeInit,
                          <<match.oll_algorithm>>
                          \o (IF pll_alg # <<>> THEN <<pll_alg>> ELSE <<>>)
                          \o (IF pll_solve # <<>> THEN <<pll_solve>> ELSE <<>>)
                          \o <<oll_solve>>))
      THEN <<SolvePath(pll_steps \o <<oll_step>>, description)>>
      ELSE <<>>

\* CubeSolver._find_combined_oll_pll_solutions: the paths it appends.
find_combined_oll_pll_solutions(visible_stickers, phase_before) ==
  Flatten([i \in DOMAIN Matches(visible_stickers, "OLL_PLL") |->
             CombinedPass(Matches(visible_stickers, "OLL_PLL")[i],
                          phase_before)])

\* The loop without its "if key not in seen": every path is kept.
UniqueFrom_all(paths, unique_paths) == unique_paths \o paths

\* The deduplication of solve: the first path of each description.
RECURSIVE UniqueFrom(_, _)
UniqueFrom(paths, unique_paths) ==
  IF paths = <<>> THEN unique_paths
  ELSE UniqueFrom(
         Tail(paths),
         IF \E i \in 1..Len(unique_paths) :
              unique_paths[i].description = Head(paths).description
         THEN unique_paths ELSE Append(unique_paths, Head(paths)))

\* The list without the sort: the order the finders appended in.
SortByMoves_unsorted(paths) == paths

\* unique_paths.sort(key=lambda p: p.total_moves): a stable sort.
SortByMoves(paths) ==
  LET Before(i, j) ==
        \/ paths[i].total_moves < paths[j].total_moves
        \/ paths[i].total_moves = paths[j].total_moves /\ i < j
      Rank(j) == Cardinality({i \in 1..Len(paths) : Before(i, j)}) + 1
  IN  [k \in 1..Len(paths) |-> paths[CHOOSE j \in 1..Len(paths) : Rank(j) = k]]

\* unique_paths[:max_paths]
FirstOf(unique_paths, max_paths) ==
  SubSeq(unique_paths, 1,
         IF Len(unique_paths) < max_paths THEN Len(unique_paths)
         ELSE max_paths)

\* The strategies solve runs for a phase, in the order it runs them.
Direct(set_name) == [kind |-> "direct", set |-> set_name, second |-> ""]
TwoStep(first_set, second_set) ==
  [kind |-> "two_step", set |-> first_set, second |-> second_set]
Combined == [kind |-> "combined", set |-> "OLL_PLL", second |-> ""]

Strategies(phase) ==
  CASE phase = "pll" -> <<Direct("PLL")>>
    [] phase = "oll" ->
         <<TwoStep("OLL", "PLL"), TwoStep("OLLCP", "PLL"), Direct("ELL"),
           Combined>>
    [] phase = "ell" -> <<Direct("ELL"), Direct("PLL")>>
    [] phase = "oll_edges_oriented" ->
         <<Direct("ZBLL"), Direct("ELL"), TwoStep("COLL", "ELL"),
           TwoStep("COLL", "PLL"), TwoStep("OLL", "PLL"), Combined>>
    [] OTHER -> <<>>

\* The paths one strategy appends.
Found(visible_stickers, phase, strategy) ==
  CASE strategy.kind = "direct" ->
         find_direct_solutions(visible_stickers, strategy.set, phase)
    [] strategy.kind = "two_step" ->
         find_two_step_solutions(visible_stickers, strategy.set, phase,
                                 strategy.second)
    [] OTHER -> find_combined_oll_pll_solutions(visible_stickers, phase)

\* The paths the strategies of the phase append, in order.
AllFound(visible_stickers, phase) ==
  Flatten([i \in DOMAIN Strategies(phase) |->
             Found(visible_stickers, phase, Strategies(phase)[i])])

\* The end of solve and of solve_from_cube: deduplicate by description, sort
\* by total_moves, keep the first max_paths.
rank_paths(paths, max_paths) ==
  FirstOf(SortByMoves(UniqueFrom(paths, <<>>)), max_paths)

\* CubeSolver.solve
solve(visible_stickers, max_paths) ==
  IF Len(visible_stickers) # 15 THEN <<>>
  ELSE IF detect_phase(visible_stickers).phase \in {"solved", "unknown"}
  THEN <<>>
  ELSE rank_paths(
         AllFound(visible_stickers, detect_phase(visible_stickers).phase),
         max_paths)

\* The algorithms a cube is scrambled with before it is handed to the solver:
\* the cases of the catalogue, the turns of the top layer, whole-cube turns
\* and moves of the other layers.
ScrambleInputs ==
  {OllCases[i][2] : i \in 1..Len(OllCases)}
  \cup {PllCases[i][2] : i \in 1..Len(PllCases)}
  \cup {<<"U">>, <<"U", "'">>, <<"U", "2">>, <<"y">>, <<"y", "'">>,
        <<"R", " ", "U", " ", "R", "'">>, <<"F", " ", "D", "2">>}

\* cube.apply_algorithm(algorithm) on the cube the solver will be handed.
Scramble(algorithm) ==
  /\ pc = "ready"
  /\ ApplyAlgorithm(algorithm)

\* The values of max_paths callers pass; 5 is the default.
MaxPathsInputs == {1, 2, 5}

\* solver.solve(cube.get_visible_stickers(), max_paths)
Solve(max_paths) ==
  /\ pc = "ready" /\ SettingUp
  /\ LET visible_stickers == get_visible_stickers(faces)
     IN  /\ answer' = [made |-> TRUE, paths |-> solve(visible_stickers, max_paths)]
         /\ call' = [op |-> "solve", arg |-> visible_stickers, n |-> max_paths]
  /\ UNCHANGED <<faces, raised, steps, origin, resolverVars, set_tables, reconVars, detectorVars, pipelineVars, copyVars>>

\* CubeSolver(): its resolver built, no cube scrambled yet.
SolverInit ==
  /\ CubeStart
  /\ answer = [made |-> FALSE]
  /\ set_tables = [PLL |-> pll_table, OLL |-> oll_table]
  /\ lookup_table = build_lookup_table
  /\ pc = "ready"
  /\ loop = [o |-> Len(rotation_sequences) + 1, oll |-> 0, p |-> 1, r |-> 1]
  /\ state_count = Cardinality(DOMAIN build_lookup_table)
  /\ produced = <<>>
  /\ query = [made |-> FALSE]
  /\ ReconIdle /\ DetectorIdle /\ PipelineIdle /\ CopyIdle

SolverNext ==
  \/ \E algorithm \in ScrambleInputs : Scramble(algorithm)
  \/ \E max_paths \in MaxPathsInputs : Solve(max_paths)

SpecSolver == SolverInit /\ [][SolverNext]_vars

(* --------------------------- solver claims ---------------------------- *)

\* The cube after the steps of a path, applied in order.
RECURSIVE AfterSteps(_, _)
AfterSteps(f, path_steps) ==
  IF path_steps = <<>> THEN f
  ELSE AfterSteps(apply_algorithm(f, Head(path_steps).algorithm).faces,
                  Tail(path_steps))

\* C1: every path solve returns leaves the cube it was asked about solved
\* when its steps are applied to that cube in order.
C1_PathsSolve ==
  answer.made =>
    \A i \in 1..Len(answer.paths) :
      is_solved(AfterSteps(faces, answer.paths[i].steps))

(* ------------------------ ranking of the paths ------------------------ *)

\* The paths the finders of solve_from_cube append for a cube whose last F2L
\* pair is open: one step each, of a few cases and a few lengths.
CandidateCases == {"F2L 1", "F2L 2", "ZBLS 1"}
CandidateAlgorithms ==
  {<<"R">>, <<"U", " ", "R">>, <<"R", " ", "U", " ", "R", "'">>}

CandidatePaths ==
  {SolvePath(<<SolveStep("F2L", case_name, algorithm, "f2l_last_pair", "solved")>>,
             case_name) :
     case_name \in CandidateCases, algorithm \in CandidateAlgorithms}

\* paths.append(SolvePath(...)) of a finder.
AppendPath(path) ==
  /\ call.op \in {"none", "append"}
  /\ Len(call.arg) < MaxCandidates
  /\ call' = [op |-> "append", arg |-> Append(call.arg, path), n |-> 0]
  /\ UNCHANGED <<faces, raised, steps, origin, resolverVars, solverVars, reconVars, detectorVars, pipelineVars, copyVars>>

\* The end of solve_from_cube: the paths appended so far are ranked.
RankPaths(max_paths) ==
  /\ call.op \in {"none", "append"}
  /\ answer' = [made |-> TRUE, paths |-> rank_paths(call.arg, max_paths)]
  /\ call' = [op |-> "rank", arg |-> call.arg, n |-> max_paths]
  /\ UNCHANGED <<faces, raised, steps, origin, resolverVars, set_tables, reconVars, detectorVars, pipelineVars, copyVars>>

RankingInit ==
  CubeStart /\ ResolverIdle /\ SolverIdle /\ ReconIdle /\ DetectorIdle /\ PipelineIdle /\ CopyIdle

RankingNext ==
  \/ \E path \in CandidatePaths : AppendPath(path)
  \/ \E max_paths \in MaxPathsInputs : RankPaths(max_paths)

SpecRanking == RankingInit /\ [][RankingNext]_vars

\* The candidate paths the answer was ranked from.
Candidates ==
  IF call.op = "solve"
  THEN AllFound(call.arg, detect_phase(call.arg).phase)
  ELSE call.arg

\* The candidates deduplication keeps: the first of each description.
Kept(candidates) ==
  {i \in 1..Len(candidates) :
     \A j \in 1..(i - 1) : candidates[j].description # candidates[i].description}

\* C11: the answer has at most max_paths paths, in non-decreasing order of
\* total_moves; they are candidates deduplication keeps, as many as max_paths
\* allows, and no kept candidate left out has fewer moves than one returned.
C11_RankedAndTruncated ==
  answer.made =>
    LET paths == answer.paths
        kept == {Candidates[i] : i \in Kept(Candidates)}
        returned == {paths[i] : i \in 1..Len(paths)}
    IN  /\ Len(paths) <= call.n
        /\ \A i \in 1..(Len(paths) - 1) :
             paths[i].total_moves <= paths[i + 1].total_moves
        /\ returned \subseteq kept
        /\ Len(paths) = IF Cardinality(kept) < call.n THEN Cardinality(kept)
                        ELSE call.n
        /\ \A left \in kept \ returned : \A path \in returned :
             path.total_moves <= left.total_moves

\* Three candidates in decreasing order of moves, two returned in increasing
\* order, the longest left out.
C11_Witness ==
  /\ answer.made /\ call.op = "rank" /\ call.n = 2
  /\ Len(call.arg) = 3 /\ Len(answer.paths) = 2
  /\ call.arg[1].total_moves > call.arg[2].total_moves
  /\ call.arg[2].total_moves > call.arg[3].total_moves
  /\ answer.paths[1] = call.arg[3] /\ answer.paths[2] = call.arg[2]

\* C12: no two paths of an answer have the same description.
C12_UniqueDescriptions ==
  answer.made =>
    \A i, j \in 1..Len(answer.paths) :
      answer.paths[i].description = answer.paths[j].description => i = j

\* Two candidates of one description and different lengths among three; the
\* answer holds the first of them and not the second.
C12_Witness ==
  /\ answer.made /\ call.op = "rank" /\ call.n = 5
  /\ Len(call.arg) = 3 /\ Len(answer.paths) = 2
  /\ call.arg[1].description = call.arg[3].description
  /\ call.arg[1].total_moves > call.arg[3].total_moves
  /\ \E i \in 1..2 : answer.paths[i] = call.arg[1]
  /\ \A i \in 1..2 : answer.paths[i] # call.arg[3]

(* --------------------------- reconstructor ---------------------------- *)

\* The U-layer corner and edge pieces, by colour set, in the order of the lists.
U_CORNERS ==
  <<{"W", "G", "R"}, {"W", "G", "O"}, {"W", "B", "R"}, {"W", "B", "O"}>>

U_EDGES == <<{"W", "G"}, {"W", "R"}, {"W", "B"}, {"W", "O"}>>

Pieces(list) == {list[i] : i \in 1..Len(list)}

\* CORNER_HOME and EDGE_HOME: the place of a piece in its list, from 0.
CORNER_HOME == [piece \in Pieces(U_CORNERS) |->
                  (CHOOSE i \in 1..Len(U_CORNERS) : U_CORNERS[i] = piece) - 1]

EDGE_HOME == [piece \in Pieces(U_EDGES) |->
                (CHOOSE i \in 1..Len(U_EDGES) : U_EDGES[i] = piece) - 1]

\* The OLL and PLL cases _build_corner_tables runs over: those of the resolver,
\* OLL 20 and OLL 21, and V-Perm, the PLL case with a whole-cube turn in its
\* algorithm.  Every pass over another case of the catalogue makes keys that
\* passes over these make, with the same entries: the tables are those of the
\* whole catalogue, twelve keys each.
TableOllCases ==
  OllCases \o SelectSeq(OLL_CASES, LAMBDA c : c[1] \in {"OLL 20", "OLL 21"})

TablePllCases == PllCases \o SelectSeq(PLL_CASES, LAMBDA c : c[1] = "V-Perm")

AUF_SETUPS == <<<<>>, <<"U">>, <<"U", "'">>, <<"U", "2">>>>

\* filter(None, parts): the parts that are not empty.
NonEmpty(parts) == SelectSeq(parts, LAMBDA part : part # <<>>)

\* The passes of the loops of _build_corner_tables, numbered in their order.
CornerPassCount == Len(TableOllCases) * Len(TablePllCases) * Len(AUF_SETUPS)

\* alg of pass n: ' '.join(filter(None, [oll_alg, pll_alg, auf]))
CornerPassAlg(n) ==
  LET per_oll == Len(TablePllCases) * Len(AUF_SETUPS)
      oll_alg == TableOllCases[((n - 1) \div per_oll) + 1][2]
      pll_alg == TablePllCases[(((n - 1) % per_oll) \div Len(AUF_SETUPS)) + 1][2]
      auf == AUF_SETUPS[((n - 1) % Len(AUF_SETUPS)) + 1]
  IN  JoinWith(" ", NonEmpty(<<oll_alg, pll_alg, auf>>))

\* The cube of each pass; ok = FALSE where apply_algorithm raised and the pass
\* was left by "continue".
corner_pass_cubes ==
  [n \in 1..CornerPassCount |-> apply_algorithm(CubeInit, CornerPassAlg(n))]

CornerPasses == {n \in 1..CornerPassCount : corner_pass_cubes[n].ok}

\* piece of a pass: frozenset({u0, b2, l0})
UblPiece(f) == {St(f, "U", 0), St(f, "B", 2), St(f, "L", 0)}

\* The three tables _build_corner_tables returns, first writer wins:
\* (U[6], F[0]) -> L[2], (U[2], R[2]) -> B[0], (piece, U[0]) -> (B[2], L[0]).
ufl_table ==
  TableOf([n \in CornerPasses |->
             <<St(corner_pass_cubes[n].faces, "U", 6),
               St(corner_pass_cubes[n].faces, "F", 0)>>],
          CornerPasses,
          [n \in CornerPasses |-> St(corner_pass_cubes[n].faces, "L", 2)])

ubr_table ==
  TableOf([n \in CornerPasses |->
             <<St(corner_pass_cubes[n].faces, "U", 2),
               St(corner_pass_cubes[n].faces, "R", 2)>>],
          CornerPasses,
          [n \in CornerPasses |-> St(corner_pass_cubes[n].faces, "B", 0)])

UblPasses ==
  {n \in CornerPasses : UblPiece(corner_pass_cubes[n].faces) \in Pieces(U_CORNERS)}

ubl_table ==
  TableOf([n \in UblPasses |->
             <<UblPiece(corner_pass_cubes[n].faces),
               St(corner_pass_cubes[n].faces, "U", 0)>>],
          UblPasses,
          [n \in UblPasses |->
             <<St(corner_pass_cubes[n].faces, "B", 2),
               St(corner_pass_cubes[n].faces, "L", 0)>>])

build_corner_tables == [ufl |-> ufl_table, ubr |-> ubr_table, ubl |-> ubl_table]

\* StateReconstructor._perm_parity: the walk of the cycle through j.
RECURSIVE CycleFrom(_, _, _, _)
CycleFrom(perm, visited, j, cycle_len) ==
  IF j \in visited THEN [visited |-> visited, cycle_len |-> cycle_len]
  ELSE CycleFrom(perm, visited \cup {j}, perm[j + 1], cycle_len + 1)

RECURSIVE ParityFrom(_, _, _, _)
ParityFrom(perm, visited, i, parity) ==
  IF i = Len(perm) THEN parity % 2
  ELSE IF i \in visited THEN ParityFrom(perm, visited, i + 1, parity)
  ELSE ParityFrom(perm, CycleFrom(perm, visited, i, 0).visited, i + 1,
                  parity + CycleFrom(perm, visited, i, 0).cycle_len - 1)

perm_parity(perm) == ParityFrom(perm, {}, 0, 0)

\* U[i], F[i], R[i] of the lists reconstruct slices out of visible_27.
At(face, i) == face[i + 1]

\* A call that ended in ValueError.
Failed == [raised |-> TRUE]

\* StateReconstructor._derive_corners with a default sticker in place of the
\* errors for keys the tables have not.
derive_corners_default(tables, U, F, R) ==
  LET ufl_key == <<At(U, 6), At(F, 0)>>
      ubr_key == <<At(U, 2), At(R, 2)>>
      L2 == IF ufl_key \in DOMAIN tables.ufl THEN tables.ufl[ufl_key] ELSE "W"
      B0 == IF ubr_key \in DOMAIN tables.ubr THEN tables.ubr[ubr_key] ELSE "W"
      ufr == {At(U, 8), At(F, 2), At(R, 0)}
      ufl == {At(U, 6), At(F, 0), L2}
      ubr == {At(U, 2), At(R, 2), B0}
      ubl == SelectSeq(U_CORNERS, LAMBDA p : p \notin {ufr, ufl, ubr})
      ubl_key == <<ubl[1], At(U, 0)>>
      hidden == IF ubl_key \in DOMAIN tables.ubl THEN tables.ubl[ubl_key]
                ELSE <<"W", "W">>
  IN  IF ufr \notin Pieces(U_CORNERS) \/ Len(ubl) # 1 THEN Failed
      ELSE [raised |-> FALSE, L2 |-> L2, B0 |-> B0, B2 |-> hidden[1],
            L0 |-> hidden[2],
            ufr |-> ufr, ufl |-> ufl, ubr |-> ubr, ubl |-> ubl[1]]

\* StateReconstructor._derive_corners
derive_corners(tables, U, F, R) ==
  LET ufr == {At(U, 8), At(F, 2), At(R, 0)}
      ufl_key == <<At(U, 6), At(F, 0)>>
      ubr_key == <<At(U, 2), At(R, 2)>>
  IN  IF ufr \notin Pieces(U_CORNERS) THEN Failed
      ELSE IF ufl_key \notin DOMAIN tables.ufl THEN Failed
      ELSE IF ubr_key \notin DOMAIN tables.ubr THEN Failed
      ELSE
        LET L2 == tables.ufl[ufl_key]
            B0 == tables.ubr[ubr_key]
            ufl == {At(U, 6), At(F, 0), L2}
            ubr == {At(U, 2), At(R, 2), B0}
            ubl == SelectSeq(U_CORNERS, LAMBDA p : p \notin {ufr, ufl, ubr})
        IN  IF Len(ubl) # 1 THEN Failed
            ELSE IF <<ubl[1], At(U, 0)>> \notin DOMAIN tables.ubl THEN Failed
            ELSE [raised |-> FALSE, L2 |-> L2, B0 |-> B0,
                  B2 |-> tables.ubl[<<ubl[1], At(U, 0)>>][1],
                  L0 |-> tables.ubl[<<ubl[1], At(U, 0)>>][2],
                  ufr |-> ufr, ufl |-> ufl, ubr |-> ubr, ubl |-> ubl[1]]

\* [e for e in pool if e != piece][0]
FirstOther(pool, piece) == SelectSeq(pool, LAMBDA e : e # piece)[1]

\* StateReconstructor._identify_edges
identify_edges(U, F, R, corner_parity) ==
  LET uf == {At(U, 7), At(F, 1)}
      ur == {At(U, 5), At(R, 1)}
      pool == SelectSeq(U_EDGES, LAMBDA e : e \notin {uf, ur})
      ub_u == At(U, 1)
      ul_u == At(U, 3)
      edge_par0 == perm_parity(<<EDGE_HOME[uf], EDGE_HOME[ur],
                                 EDGE_HOME[pool[1]], EDGE_HOME[pool[2]]>>)
      Edges(ub, ul) == [raised |-> FALSE, uf |-> uf, ur |-> ur, ub |-> ub, ul |-> ul]
  IN  IF uf \notin Pieces(U_EDGES) THEN Failed
      ELSE IF ur \notin Pieces(U_EDGES) THEN Failed
      ELSE IF ub_u # "W"
      THEN IF {"W", ub_u} \notin Pieces(pool) THEN Failed
           ELSE Edges({"W", ub_u}, FirstOther(pool, {"W", ub_u}))
      ELSE IF ul_u # "W"
      THEN IF {"W", ul_u} \notin Pieces(pool) THEN Failed
           ELSE Edges(FirstOther(pool, {"W", ul_u}), {"W", ul_u})
      ELSE IF edge_par0 = corner_parity THEN Edges(pool[1], pool[2])
      ELSE Edges(pool[2], pool[1])

\* The states reconstruct can return once the corners and the edges are
\* known: list(ub - {U[1]})[0] and list(ul - {U[3]})[0] are the first element
\* of a set, any of its elements when it has two.
ReconstructedStates(U, F, R, corners, edges) ==
  {[raised |-> FALSE,
    state |-> [U |-> U, D |-> Mono("Y"), F |-> F, R |-> R,
               B |-> <<corners.B0, b1, corners.B2, "O", "O", "O", "O", "O", "O">>,
               L |-> <<corners.L0, l1, corners.L2, "G", "G", "G", "G", "G", "G">>]] :
     b1 \in edges.ub \ {At(U, 1)}, l1 \in edges.ul \ {At(U, 3)}}

\* corner_perm and its parity
CornerParity(corners) ==
  perm_parity(<<CORNER_HOME[corners.ufr], CORNER_HOME[corners.ufl],
                CORNER_HOME[corners.ubr], CORNER_HOME[corners.ubl]>>)

EdgesOf(U, F, R, corners) ==
  IF corners.raised THEN Failed
  ELSE identify_edges(U, F, R, CornerParity(corners))

OutcomesOf(U, F, R, corners, edges) ==
  IF corners.raised \/ edges.raised THEN {Failed}
  ELSE ReconstructedStates(U, F, R, corners, edges)

ReconstructFaces(U, F, R, corners) ==
  OutcomesOf(U, F, R, corners, EdgesOf(U, F, R, corners))

\* StateReconstructor.reconstruct: the outcomes of a call, one unless a
\* hidden edge sticker is drawn from a set of two.
reconstruct(tables, visible_27) ==
  IF Len(visible_27) # 27 THEN {Failed}
  ELSE ReconstructFaces(SubSeq(visible_27, 1, 9),
                        SubSeq(visible_27, 10, 18), SubSeq(visible_27, 19, 27),
                        derive_corners(tables, SubSeq(visible_27, 1, 9),
                                       SubSeq(visible_27, 10, 18),
                                       SubSeq(visible_27, 19, 27)))

\* The algorithms a cube is scrambled with before it is photographed: the
\* cases the tables are built over and the turns of the top layer.
ReconScrambles ==
  {OllCases[i][2] : i \in 1..Len(OllCases)}
  \cup {TablePllCases[i][2] : i \in 1..Len(TablePllCases)}
  \cup {<<"U">>, <<"U", "'">>}

\* vis = cube.faces['U'] + cube.faces['F'] + cube.faces['R']
Visible27(f) == f.U \o f.F \o f.R

\* The places of visible_27 a misread sticker is tried at, from 1: U[0], U[1],
\* U[2], U[3], U[6], F[0] and R[2].
MisreadPlaces == {1, 2, 3, 4, 7, 10, 21}

\* What the caller hands to reconstruct for a cube: its 27 visible stickers,
\* the same with one sticker misread, with U[5] and U[7] taken for one
\* another, or with the last sticker missing.
Observations(f) ==
  {Visible27(f)}
  \cup {[Visible27(f) EXCEPT ![place] = color] :
          place \in MisreadPlaces, color \in Colors}
  \cup {[Visible27(f) EXCEPT ![6] = Visible27(f)[8], ![8] = Visible27(f)[6]]}
  \cup {SubSeq(Visible27(f), 1, 26)}

\* cube.apply_algorithm(algorithm) on the cube that will be photographed.
ScrambleForPhoto(algorithm) ==
  /\ corner_tables # <<>>
  /\ ApplyAlgorithm(algorithm)

\* recon.reconstruct(visible_27)
Reconstruct(visible_27) ==
  /\ corner_tables # <<>> /\ SettingUp
  /\ \E outcome \in reconstruct(corner_tables, visible_27) :
       reconstruction' = [made |-> TRUE, visible_27 |-> visible_27] @@ outcome
  /\ call' = [op |-> "reconstruct", arg |-> visible_27, n |-> 1]
  /\ UNCHANGED <<faces, raised, steps, origin, corner_tables, resolverVars,
                 solverVars, detectorVars, pipelineVars, copyVars>>

\* StateReconstructor(): its tables built, no cube photographed yet.
ReconstructorInit ==
  /\ CubeStart /\ ResolverIdle /\ SolverIdle /\ DetectorIdle /\ PipelineIdle /\ CopyIdle
  /\ corner_tables = build_corner_tables
  /\ reconstruction = [made |-> FALSE]

ReconstructorNext ==
  \/ \E algorithm \in ReconScrambles : ScrambleForPhoto(algorithm)
  \/ \E visible_27 \in Observations(faces) : Reconstruct(visible_27)

SpecReconstructor == ReconstructorInit /\ [][ReconstructorNext]_vars

\* The cubes a solved cube becomes by an OLL algorithm followed by a PLL
\* algorithm of the catalogue, V-Perm among the latter.
OllThenPll ==
  {apply_algorithm(apply_algorithm(CubeInit, OllCases[i][2]).faces,
                   TablePllCases[j][2]).faces :
     i \in 1..Len(OllCases), j \in 1..Len(TablePllCases)}

\* reconstruct was called with the U, F and R faces of the cube as it is.
SawTheCube ==
  /\ reconstruction.made
  /\ reconstruction.visible_27 = Visible27(faces)

\* C13: for a solved cube scrambled by an OLL algorithm then a PLL algorithm,
\* reconstruct of its 27 visible stickers returns the cube itself, every face
\* equal, D and the hidden stickers of B and L included.
C13_HiddenStickers ==
  (SawTheCube /\ faces \in OllThenPll)
    => (~reconstruction.raised /\ reconstruction.state = faces)

\* The pieces in the four corner and the four edge places of the U layer of a
\* 54-sticker state, in the order UFR, UFL, UBR, UBL and UF, UR, UB, UL.
CornerPiecesOf(f) ==
  <<{St(f, "U", 8), St(f, "F", 2), St(f, "R", 0)},
    {St(f, "U", 6), St(f, "F", 0), St(f, "L", 2)},
    {St(f, "U", 2), St(f, "R", 2), St(f, "B", 0)},
    {St(f, "U", 0), St(f, "B", 2), St(f, "L", 0)}>>

EdgePiecesOf(f) ==
  <<{St(f, "U", 7), St(f, "F", 1)}, {St(f, "U", 5), St(f, "R", 1)},
    {St(f, "U", 1), St(f, "B", 1)}, {St(f, "U", 3), St(f, "L", 1)}>>

\* The places hold each piece of the list once.
IsPermutationOf(places, list) ==
  /\ Pieces(places) = Pieces(list)
  /\ Len(places) = Len(list)

\* C14: in every state reconstruct returns, the permutation of the four
\* U-layer corners and the permutation of the four U-layer edges have the
\* same parity.  Stated for the returned states whose U layer holds every
\* corner and every edge once, where both permutations exist.
C14_ParityInvariant ==
  (/\ reconstruction.made
   /\ ~reconstruction.raised
   /\ IsPermutationOf(CornerPiecesOf(reconstruction.state), U_CORNERS)
   /\ IsPermutationOf(EdgePiecesOf(reconstruction.state), U_EDGES))
    => perm_parity([i \in 1..4 |->
                      CORNER_HOME[CornerPiecesOf(reconstruction.state)[i]]])
         = perm_parity([i \in 1..4 |->
                          EDGE_HOME[EdgePiecesOf(reconstruction.state)[i]]])

\* The partial corner keys reconstruct observes in visible_27: (U[6], F[0]),
\* (U[2], R[2]) and, once these two have given the pieces at UFL and UBR and
\* one corner is left for UBL, (that corner, U[0]).
UflKey(visible_27) == <<visible_27[7], visible_27[10]>>
UbrKey(visible_27) == <<visible_27[3], visible_27[21]>>

CornersLeft(tables, visible_27) ==
  SelectSeq(U_CORNERS, LAMBDA p :
    p \notin {{visible_27[9], visible_27[12], visible_27[19]},
              {visible_27[7], visible_27[10], tables.ufl[UflKey(visible_27)]},
              {visible_27[3], visible_27[21], tables.ubr[UbrKey(visible_27)]}})

UblKeyAbsent(tables, visible_27) ==
  /\ UflKey(visible_27) \in DOMAIN tables.ufl
  /\ UbrKey(visible_27) \in DOMAIN tables.ubr
  /\ Len(CornersLeft(tables, visible_27)) = 1
  /\ <<CornersLeft(tables, visible_27)[1], visible_27[1]>> \notin DOMAIN tables.ubl

KeyAbsent(tables, visible_27) ==
  \/ UflKey(visible_27) \notin DOMAIN tables.ufl
  \/ UbrKey(visible_27) \notin DOMAIN tables.ubr
  \/ UblKeyAbsent(tables, visible_27)

\* C15: reconstruct raises, and returns no state, whenever a partial corner
\* key it observes is absent from the tables built at construction.
C15_AbsentKeyFails ==
  (reconstruction.made /\ KeyAbsent(corner_tables, reconstruction.visible_27))
    => reconstruction.raised

\* reconstruct was called with 27 stickers whose keys for UFL and UBR are in
\* the tables, whose UFR corner is a piece and whose key for UBL is absent,
\* and raised.
C15_Witness ==
  /\ reconstruction.made
  /\ Len(reconstruction.visible_27) = 27
  /\ {reconstruction.visible_27[9], reconstruction.visible_27[12],
      reconstruction.visible_27[19]} \in Pieces(U_CORNERS)
  /\ UblKeyAbsent(corner_tables, reconstruction.visible_27)
  /\ reconstruction.raised

(* ------------------------- detector as called ------------------------- *)

\* The algorithms the cube is scrambled with before its phase is asked for:
\* those of the tests of the detector.
DetectorScrambles ==
  {OllCases[1][2], PllCases[1][2],
   <<"U">>, <<"y">>, <<"x">>, <<"R">>,
   <<"R", " ", "U", " ", "R", "'">>,
   <<"F", " ", "R", " ", "U", " ", "R", "'", " ", "U", "'", " ", "F", "'">>}

\* The lists detect_phase is handed for a cube: its 15 visible stickers, the
\* first ten of them, none, and the 15 with one more.
DetectorViews(f) ==
  {get_visible_stickers(f), SubSeq(get_visible_stickers(f), 1, 10), <<>>,
   get_visible_stickers(f) \o <<"W">>}

\* cube.apply_algorithm(algorithm) on the cube the detector will be shown.
ScrambleForDetector(algorithm) ==
  /\ detection = [made |-> FALSE]
  /\ ApplyAlgorithm(algorithm)

\* detector.detect_phase(visible_stickers)
DetectPhase(visible_stickers) ==
  /\ SettingUp
  /\ detection' = [made |-> TRUE, op |-> "detect_phase",
                   visible_stickers |-> visible_stickers,
                   result |-> detect_phase(visible_stickers)]
  /\ call' = [op |-> "detect_phase", arg |-> visible_stickers, n |-> 1]
  /\ UNCHANGED <<faces, raised, steps, origin, resolverVars, solverVars,
                 reconVars, pipelineVars, copyVars>>

\* detector.detect_phase_full(cube)
DetectPhaseFull ==
  /\ SettingUp
  /\ detection' = [made |-> TRUE, op |-> "detect_phase_full",
                   visible_stickers |-> <<>>,
                   result |-> detect_phase_full(faces)]
  /\ call' = [op |-> "detect_phase_full", arg |-> <<>>, n |-> 1]
  /\ UNCHANGED <<faces, raised, steps, origin, resolverVars, solverVars,
                 reconVars, pipelineVars, copyVars>>

\* PhaseDetector() and Cube(): the detector holds no state.
DetectorInit == CubeEngineInit

DetectorNext ==
  \/ \E algorithm \in DetectorScrambles : ScrambleForDetector(algorithm)
  \/ \E visible_stickers \in DetectorViews(faces) : DetectPhase(visible_stickers)
  \/ DetectPhaseFull

SpecDetector == DetectorInit /\ [][DetectorNext]_vars

\* C16: detect_phase called with a list whose length is not 15 returns phase
\* unknown with confidence 0.0 and raises nothing.
C16_WrongStickerCount ==
  (/\ detection.made
   /\ detection.op = "detect_phase"
   /\ Len(detection.visible_stickers) # 15)
    => detection.result = PhaseResult("unknown", <<>>, 0)

\* detect_phase was called with ten stickers of a scrambled cube and returned
\* unknown.
C16_Witness ==
  /\ detection.made
  /\ detection.op = "detect_phase"
  /\ Len(detection.visible_stickers) = 10
  /\ faces # CubeInit
  /\ detection.result.phase = "unknown"

\* C17: detect_phase_full returns confidence 1.0 for every full cube state.
C17_ExactFromFullCube ==
  (detection.made /\ detection.op = "detect_phase_full")
    => detection.result.confidence = 100

\* The solved cube in its 24 orientations.
SolvedCubes ==
  {apply_algorithm(CubeInit, JoinWith(" ", NonEmpty(<<a, b>>))).faces :
     a \in {<<>>, <<"x">>, <<"x", "2">>, <<"x", "'">>, <<"z">>, <<"z", "'">>},
     b \in {<<>>, <<"y">>, <<"y", "2">>, <<"y", "'">>}}

\* The 15 stickers are those a solved cube shows.
LooksSolved(visible_stickers) ==
  \E f \in SolvedCubes : visible_stickers = get_visible_stickers(f)

\* detect_phase was handed 15 stickers that a solved cube shows.
SolvedView ==
  /\ detection.made
  /\ detection.op = "detect_phase"
  /\ LooksSolved(detection.visible_stickers)

\* C18 as stated: 15 stickers that coincide with those of a solved cube are
\* reported as phase pll with confidence at most 0.95.
C18_ReportedAsPll ==
  SolvedView
    => (detection.result.phase = "pll" /\ detection.result.confidence <= 95)

\* C18 as the code has it: 15 stickers that coincide with those of a solved
\* cube are reported as phase solved, with no applicable set and confidence
\* 0.9, which is at most 0.95.
C18_ReportedAsSolved ==
  SolvedView
    => (/\ detection.result.phase = "solved"
        /\ detection.result.applicable_sets = <<>>
        /\ detection.result.confidence = 90
        /\ detection.result.confidence <= 95)

\* detect_phase was handed the 15 stickers of a cube that is solved but
\* turned as a whole, and answered.
C18_Witness ==
  /\ SolvedView
  /\ faces # CubeInit
  /\ is_solved(faces)
  /\ detection.visible_stickers = get_visible_stickers(faces)
  /\ detection.result.phase = "solved"

(* ----------------------- wide moves and rotations --------------------- *)

\* The composition of primitive moves the docstring of each wide move and
\* each rotation gives for it.
DocumentedComposition ==
  [move \in {"r", "l", "u", "d", "f", "b", "x", "y", "z"} |->
     CASE move = "r" -> <<"R", " ", "M", "'">>
       [] move = "l" -> <<"L", " ", "M">>
       [] move = "u" -> <<"U", " ", "E", "'">>
       [] move = "d" -> <<"D", " ", "E">>
       [] move = "f" -> <<"F", " ", "S">>
       [] move = "b" -> <<"B", " ", "S", "'">>
       [] move = "x" -> <<"R", " ", "M", "'", " ", "L", "'">>
       [] move = "y" -> <<"U", " ", "E", "'", " ", "D", "'">>
       [] move = "z" -> <<"F", " ", "S", " ", "B", "'">>]

\* apply_move was called once with a wide move or a rotation, unmodified.
WideMoveMade ==
  /\ call.op = "apply_move"
  /\ call.n = 1
  /\ Len(call.arg) = 1
  /\ call.arg[1] \in DOMAIN DocumentedComposition

\* C20: on every cube state, a wide move or a rotation leaves the cube that
\* its documented composition of primitive moves leaves: r = R M', l = L M,
\* u = U E', d = D E, f = F S, b = B S', x = R M' L', y = U E' D', z = F S B'.
C20_DocumentedCompositions ==
  WideMoveMade
    => (/\ ~raised
        /\ faces = apply_algorithm(origin,
                     DocumentedComposition[call.arg[1]]).faces)

\* r was applied to a cube that some algorithm had scrambled.
C20_Witness ==
  /\ WideMoveMade
  /\ call.arg = <<"r">>
  /\ ~is_solved(origin)
  /\ faces # origin

(* --------------------------- the catalogue ---------------------------- *)

\* cube = Cube(); cube.apply_algorithm(alg) for the alg of an OLL case.
ApplyOll(i) ==
  /\ call.op = "none"
  /\ Returns(apply_algorithm(faces, OLL_CASES[i][2]))
  /\ call' = [op |-> "apply_oll", arg |-> OLL_CASES[i][2], n |-> i]
  /\ origin' = faces
  /\ steps' = steps + 1
  /\ UNCHANGED <<resolverVars, solverVars, reconVars, detectorVars, pipelineVars, copyVars>>

\* cube.apply_algorithm(alg) for the alg of a PLL case, on a new cube or
\* after an OLL algorithm.
ApplyPll(j) ==
  /\ call.op \in {"none", "apply_oll"} /\ ~raised
  /\ Returns(apply_algorithm(faces, PLL_CASES[j][2]))
  /\ call' = [op |-> "apply_pll", arg |-> PLL_CASES[j][2], n |-> j]
  /\ origin' = faces
  /\ steps' = steps + 1
  /\ UNCHANGED <<resolverVars, solverVars, reconVars, detectorVars, pipelineVars, copyVars>>

CatalogueNext ==
  \/ \E i \in 1..Len(OLL_CASES) : ApplyOll(i)
  \/ \E j \in 1..Len(PLL_CASES) : ApplyPll(j)

SpecCatalogue == CubeEngineInit /\ [][CatalogueNext]_vars

\* C19: every OLL algorithm applied to a solved cube leaves the D face as it
\* was, and every PLL algorithm applied to a solved cube leaves the U face of
\* one colour.
C19_PhasePreserving ==
  /\ (call.op = "apply_oll" /\ origin = CubeInit)
       => (~raised /\ faces.D = origin.D)
  /\ (call.op = "apply_pll" /\ origin = CubeInit)
       => (~raised /\ faces.U = Mono(St(faces, "U", 4)))

\* An OLL algorithm was applied to the solved cube and changed its U face.
C19_Witness ==
  /\ call.op = "apply_oll"
  /\ origin = CubeInit
  /\ faces.U # origin.U
  /\ faces.D = origin.D

(* ------------------------ more on the cube engine --------------------- *)

\* apply_move was called once, outside a run of repeats.
MoveMade == call.op = "apply_move" /\ call.n = 1

\* C23: for every base move X and every cube state, the token X2 applied once
\* leaves the cube that X applied twice leaves.
C23_DoubleMove ==
  (/\ MoveMade
   /\ Len(call.arg) = 2
   /\ call.arg[2] = "2"
   /\ <<call.arg[1]>> \in LegalTokens)
    => (/\ ~raised
        /\ faces = apply_move(apply_move(origin, <<call.arg[1]>>).faces,
                              <<call.arg[1]>>).faces)

\* B2 was applied to a cube that some algorithm had scrambled, and changed
\* it.
C23_Witness ==
  /\ MoveMade
  /\ call.arg = <<"B", "2">>
  /\ ~is_solved(origin)
  /\ faces # origin

\* C25: a new Cube has U all W, D all Y, F all G, B all B, L all O and R all
\* R, and so shows 9 W, then 3 G, then 3 R.
C25_SolvedScheme ==
  (call.op = "none")
    => (/\ faces = [U |-> Mono("W"), D |-> Mono("Y"), F |-> Mono("G"),
                    B |-> Mono("B"), L |-> Mono("O"), R |-> Mono("R")]
        /\ get_visible_stickers(faces)
             = Mono("W") \o <<"G", "G", "G">> \o <<"R", "R", "R">>)

\* C30: apply_move with a token that is none of the 54 raises and leaves
\* every sticker of the cube as it was.
C30_InvalidTokenNoChange ==
  (MoveMade /\ call.arg \notin LegalTokens) => (raised /\ faces = origin)

\* An unknown letter with a modifier was given to apply_move on a scrambled
\* cube.
C30_Witness ==
  /\ MoveMade
  /\ call.arg = <<"Q", "'">>
  /\ raised
  /\ ~is_solved(origin)

(* ------------------------- more on the resolver ----------------------- *)

\* C24: match_state on the 15 visible stickers of a new cube returns a match
\* whose pll_case is "Solved".
C24_SolvedInLookup ==
  (query.made /\ query.stickers = get_visible_stickers(CubeInit))
    => (/\ ~query.raised
        /\ query.found
        /\ query.entry.pll_case = "Solved")

\* match_state was called with the stickers of a new cube and found an entry.
C24_Witness ==
  /\ query.made
  /\ query.stickers = get_visible_stickers(CubeInit)
  /\ query.found

\* Every face of one colour.
Monochrome(f) == \A X \in FaceNames : f[X] = Mono(St(f, X, 4))

\* C27: the 24 rotation sequences, each applied to a solved cube, give 24
\* cubes with every face of one colour, no two of them equal.  Stated at each
\* base orientation the build loops reach: it is monochrome and none of the
\* orientations before it.
C27_Orientations ==
  /\ Len(rotation_sequences) = 24
  /\ (pc = "build" /\ loop.o <= Len(rotation_sequences))
       => (/\ Monochrome(get_all_orientations[loop.o])
           /\ \A j \in 1..(loop.o - 1) :
                get_all_orientations[j] # get_all_orientations[loop.o])

\* The build loops have reached the last base orientation, that of "z y'".
C27_Witness ==
  /\ pc = "build"
  /\ loop.o = 24
  /\ rotation_sequences[loop.o] = <<"z", " ", "y", "'">>
  /\ loop.oll > 0

(* ------------------------ more on the ranking ------------------------- *)

SkippedPaths ==
  LET phase == detect_phase(call.arg).phase
      strategies == Strategies(phase)
      Appended(strategy) ==
        find_two_step_solutions(call.arg, strategy.set, phase, strategy.second)
  IN  UNION {{Appended(strategies[i])[k] : k \in 1..Len(Appended(strategies[i]))} :
               i \in {n \in 1..Len(strategies) : strategies[n].kind = "two_step"}}

\* C28: a one-step path the two-step strategy appends because the second step
\* is skipped solves the scrambled cube with its one algorithm.
C28_SkipOnlyIfSolved ==
  (answer.made /\ call.op = "solve")
    => \A path \in {p \in SkippedPaths : Len(p.steps) = 1} :
         is_solved(AfterSteps(faces, path.steps))

(* --------------------------- pipeline caches -------------------------- *)

\* The getter called on every query: the cache is never looked at.
get_solver_uncached(p) ==
  [p EXCEPT !.solver_cache = Len(p.built) + 1,
            !.built = Append(p.built, "solver"),
            !.returned = Append(p.returned,
                                [getter |-> "solver",
                                 instance |-> Len(p.built) + 1])]

\* _get_solver: CubeSolver() if the cache is None, then the cache.
get_solver(p) ==
  LET cached ==
        IF p.solver_cache = 0
        THEN [p EXCEPT !.solver_cache = Len(p.built) + 1,
                       !.built = Append(p.built, "solver")]
        ELSE p
  IN  [cached EXCEPT !.returned =
         Append(cached.returned,
                [getter |-> "solver", instance |-> cached.solver_cache])]

\* _get_resolver: StateResolver() if the cache is None, then the cache.
get_resolver(p) ==
  LET cached ==
        IF p.resolver_cache = 0
        THEN [p EXCEPT !.resolver_cache = Len(p.built) + 1,
                       !.built = Append(p.built, "resolver")]
        ELSE p
  IN  [cached EXCEPT !.returned =
         Append(cached.returned,
                [getter |-> "resolver", instance |-> cached.resolver_cache])]

\* run_pipeline as far as the caches go: nothing with skip_solver; otherwise
\* the solver is fetched, and the resolver too when the best path named
\* neither an OLL nor a PLL case.
run_pipeline(p, skip_solver, named) ==
  IF skip_solver THEN p
  ELSE IF named THEN get_solver(p)
  ELSE get_resolver(get_solver(p))

\* One pipeline query.
RunPipeline(skip_solver, named) ==
  /\ Len(pipeline.returned) < MaxQueries
  /\ pipeline' = run_pipeline(pipeline, skip_solver, named)
  /\ UNCHANGED <<cubeVars, resolverVars, solverVars, reconVars, detectorVars,
                 copyVars>>

\* _get_resolver() called on its own.
GetResolver ==
  /\ Len(pipeline.returned) < MaxQueries
  /\ pipeline' = get_resolver(pipeline)
  /\ UNCHANGED <<cubeVars, resolverVars, solverVars, reconVars, detectorVars,
                 copyVars>>

\* _get_solver() called on its own.
GetSolver ==
  /\ Len(pipeline.returned) < MaxQueries
  /\ pipeline' = get_solver(pipeline)
  /\ UNCHANGED <<cubeVars, resolverVars, solverVars, reconVars, detectorVars,
                 copyVars>>

PipelineInit == CubeEngineInit

PipelineNext ==
  \/ \E skip_solver, named \in BOOLEAN : RunPipeline(skip_solver, named)
  \/ GetResolver
  \/ GetSolver

SpecPipeline == PipelineInit /\ [][PipelineNext]_vars

\* The instances of one kind constructed so far.
Constructed(kind) ==
  {i \in 1..Len(pipeline.built) : pipeline.built[i] = kind}

\* C22: across the queries of a process at most one resolver and at most one
\* solver are constructed, and every call of a getter returns the instance
\* its first call returned.
C22_ConstructedOnce ==
  /\ Cardinality(Constructed("resolver")) <= 1
  /\ Cardinality(Constructed("solver")) <= 1
  /\ \A i, j \in 1..Len(pipeline.returned) :
       pipeline.returned[i].getter = pipeline.returned[j].getter
         => pipeline.returned[i].instance = pipeline.returned[j].instance
  /\ \A i \in 1..Len(pipeline.returned) :
       pipeline.returned[i].instance \in Constructed(pipeline.returned[i].getter)

\* The solver was fetched three times and the resolver twice.
C22_Witness ==
  /\ Cardinality({i \in 1..Len(pipeline.returned) :
                    pipeline.returned[i].getter = "solver"}) = 3
  /\ Cardinality({i \in 1..Len(pipeline.returned) :
                    pipeline.returned[i].getter = "resolver"}) = 2
  /\ Len(pipeline.built) = 2

(* ------------------------------ Cube.copy ----------------------------- *)

\* Two cubes and the faces whose list object they have in common: what one
\* cube writes into such a list the other reads.

\* The copy that hands the new cube the lists of the old one.
Cube_copy_same_lists(f) ==
  [faces |-> f, shared |-> [face \in FaceNames |-> TRUE]]

\* Cube.copy: a new Cube() whose every face is a new list with the stickers
\* of the old one.
Cube_copy(f) ==
  [faces |-> copy(f),
   shared |-> [face \in FaceNames |-> FALSE]]

\* The nine _move_ functions that turn no other: the _move_ calls each of
\* the 18 base moves comes to, in order.
Primitives(base) ==
  CASE base = "r" -> <<"R", "M", "M", "M">>
    [] base = "l" -> <<"L", "M">>
    [] base = "u" -> <<"U", "E", "E", "E">>
    [] base = "d" -> <<"D", "E">>
    [] base = "f" -> <<"F", "S">>
    [] base = "b" -> <<"B", "S", "S", "S">>
    [] base = "x" -> <<"R", "M", "M", "M", "L", "L", "L">>
    [] base = "y" -> <<"U", "E", "E", "E", "D", "D", "D">>
    [] base = "z" -> <<"F", "S", "B", "B", "B">>
    [] OTHER -> <<base>>

\* The _move_ calls of apply_move(move), move one of the 54 tokens.
Turns(move) ==
  LET once == Primitives(move[1])
  IN  IF Len(move) = 1 THEN once
      ELSE IF move[2] = "2" THEN once \o once
      ELSE once \o once \o once

primitive_move(f, p) ==
  CASE p = "R" -> move_R(f)
    [] p = "L" -> move_L(f)
    [] p = "U" -> move_U(f)
    [] p = "D" -> move_D(f)
    [] p = "F" -> move_F(f)
    [] p = "B" -> move_B(f)
    [] p = "M" -> move_M(f)
    [] p = "S" -> move_S(f)
    [] OTHER -> move_E(f)

\* _rotate_face_cw binds the turned face to a new list; every other write of
\* a _move_ function goes into the list the face is bound to.
Rebinds(p, face) == p = face

\* One _move_ call on the cube `mine`, `theirs` being the other cube.
turn(pair, p) ==
  LET turned == primitive_move(pair.mine, p)
      still == [face \in FaceNames |->
                  pair.shared[face] /\ ~Rebinds(p, face)]
  IN  [mine |-> turned,
       theirs |-> [face \in FaceNames |->
                     IF still[face] THEN turned[face] ELSE pair.theirs[face]],
       shared |-> still]

\* The _move_ calls ps, one after another.
RECURSIVE turns(_, _)
turns(pair, ps) ==
  CHOOSE after \in
    {IF ps = <<>> THEN now ELSE turns(turn(now, Head(ps)), Tail(ps)) :
       now \in {pair}} : TRUE

\* The tokens the cubes are moved with after the copy.
CopyMoves ==
  {<<BaseLetters[i]>> : i \in 1..Len(BaseLetters)}
  \cup {<<"R", "'">>, <<"U", "2">>, <<"M", "'">>, <<"x", "'">>}

\* The algorithm the cube is scrambled with before it is copied, once or
\* more.
CopyScrambles == {<<"R", " ", "U", " ", "R", "'", " ", "U", "'">>}

ScrambleBeforeCopy(algorithm) ==
  /\ ~clone.made
  /\ ApplyAlgorithm(algorithm)

\* cube2 = cube1.copy()
Copy ==
  /\ ~clone.made /\ SettingUp
  /\ clone' = [made |-> TRUE, faces |-> Cube_copy(faces).faces,
               shared |-> Cube_copy(faces).shared, moves |-> 0,
               moved |-> "none", before |-> faces]
  /\ call' = [op |-> "copy", arg |-> <<>>, n |-> 0]
  /\ UNCHANGED <<faces, raised, steps, origin, resolverVars, solverVars,
                 reconVars, detectorVars, pipelineVars>>

\* cube1.apply_move(move) after the copy.
MoveOriginal(move) ==
  /\ clone.made /\ clone.moves < MaxCopyMoves
  /\ LET pair == turns([mine |-> faces, theirs |-> clone.faces,
                        shared |-> clone.shared], Turns(move))
     IN  /\ faces' = pair.mine
         /\ clone' = [clone EXCEPT !.faces = pair.theirs,
                                   !.shared = pair.shared,
                                   !.moves = @ + 1,
                                   !.moved = "original",
                                   !.before = clone.faces]
  /\ call' = [op |-> "apply_move", arg |-> move, n |-> 1]
  /\ origin' = faces
  /\ UNCHANGED <<raised, steps, resolverVars, solverVars, reconVars,
                 detectorVars, pipelineVars>>

\* cube2.apply_move(move) after the copy.
MoveCopy(move) ==
  /\ clone.made /\ clone.moves < MaxCopyMoves
  /\ LET pair == turns([mine |-> clone.faces, theirs |-> faces,
                        shared |-> clone.shared], Turns(move))
     IN  /\ faces' = pair.theirs
         /\ clone' = [clone EXCEPT !.faces = pair.mine,
                                   !.shared = pair.shared,
                                   !.moves = @ + 1,
                                   !.moved = "copy",
                                   !.before = faces]
  /\ call' = [op |-> "apply_move", arg |-> move, n |-> 1]
  /\ origin' = clone.faces
  /\ UNCHANGED <<raised, steps, resolverVars, solverVars, reconVars,
                 detectorVars, pipelineVars>>

CopyInit == CubeEngineInit

CopyNext ==
  \/ \E algorithm \in CopyScrambles : ScrambleBeforeCopy(algorithm)
  \/ Copy
  \/ \E move \in CopyMoves : MoveOriginal(move)
  \/ \E move \in CopyMoves : MoveCopy(move)

SpecCopy == CopyInit /\ [][CopyNext]_vars

\* C21: the copy has the stickers of the original and no list in common with
\* it, and a move applied afterwards to either cube leaves the other as it
\* was. clone.before is the cube not moved as it was before the move, origin
\* the cube moved.
C21_CopyIndependent ==
  clone.made =>
    /\ clone.moved = "none" => clone.faces = faces
    /\ \A face \in FaceNames : ~clone.shared[face]
    /\ clone.moved = "original" =>
         /\ clone.faces = clone.before
         /\ faces = apply_move(origin, call.arg).faces
    /\ clone.moved = "copy" =>
         /\ faces = clone.before
         /\ clone.faces = apply_move(origin, call.arg).faces

\* A scrambled cube was copied, the copy was moved by r and then the original
\* by U2: the two cubes differ and neither is the cube that was copied.
C21_Witness ==
  /\ clone.made /\ clone.moves = 2 /\ clone.moved = "original"
  /\ call.arg = <<"U", "2">>
  /\ ~is_solved(origin)
  /\ clone.faces # faces
  /\ clone.faces # origin

(* --------------------------- solve_from_cube -------------------------- *)

\* The F2L and ZBLS catalogues: the cases the tests of solve_from_cube name.
F2L_CASES ==
  <<<<"F2L 1", <<"U", " ", "R", " ", "U", "'", " ", "R", "'">>>>,
    <<"F2L 4", <<"R", " ", "U", " ", "R", "'">>>>>>

ZBLS_CASES == <<<<"ZBLS 4", <<"R", " ", "U", " ", "R", "'">>>>>>

\* CubeSolver.AUF_SETUPS
CubeSolver_AUF_SETUPS == <<<<>>, <<"U">>, <<"U", "2">>, <<"U", "'">>>>

\* f" (AUF {auf})" if auf else ""
AufSuffix(auf) ==
  CASE auf = <<>> -> ""
    [] auf = <<"U">> -> " (AUF U)"
    [] auf = <<"U", "2">> -> " (AUF U2)"
    [] OTHER -> " (AUF U')"

\* for move in moves: self.apply_move(move) on the cube `mine` of a pair; a
\* move that raises ends the loop with nothing written.
RECURSIVE apply_moves_on(_, _, _)
apply_moves_on(pair, moves, i) ==
  CHOOSE after \in
    {IF i > Len(moves) \/ ~now.ok THEN now
     ELSE IF ~apply_move(now.mine, moves[i]).ok
     THEN [now EXCEPT !.ok = FALSE]
     ELSE apply_moves_on(
            [ok |-> TRUE]
              @@ turns([mine |-> now.mine, theirs |-> now.theirs,
                        shared |-> now.shared], Turns(moves[i])),
            moves, i + 1) :
       now \in {pair}} : TRUE

\* One apply_algorithm call after another on the cube `mine` of a pair.
RECURSIVE apply_algorithms_on(_, _)
apply_algorithms_on(pair, algorithms) ==
  CHOOSE after \in
    {IF algorithms = <<>> \/ ~now.ok THEN now
     ELSE apply_algorithms_on(
            apply_moves_on(now, parse_algorithm(Head(algorithms)), 1),
            Tail(algorithms)) :
       now \in {pair}} : TRUE

\* The private cube a copy gives, paired with the caller's cube.
PairOf(cube, made) ==
  [mine |-> made.faces, theirs |-> cube, shared |-> made.shared, ok |-> TRUE]

\* What a private cube and the caller's cube are after the calls on the
\* private one.
Tried(pair) == [ok |-> pair.ok, test |-> pair.mine, cube |-> pair.theirs]

\* _try_f2l_alg with the trial cube made of the lists of the caller's cube.
try_f2l_alg_same_lists(cube, alg, auf) ==
  CHOOSE tried \in
    {Tried(pair) :
       pair \in {apply_algorithms_on(
                   PairOf(cube, Cube_copy_same_lists(cube)),
                   (IF auf # <<>> THEN <<auf>> ELSE <<>>)
                     \o <<inverse_algorithm(alg)>>)}} : TRUE

\* CubeSolver._try_f2l_alg: the AUF and the inverse of alg on a copy of the
\* cube; test is the copy afterwards (None if a move raised), cube the
\* caller's cube afterwards.
try_f2l_alg(cube, alg, auf) ==
  CHOOSE tried \in
    {Tried(pair) :
       pair \in {apply_algorithms_on(
                   PairOf(cube, Cube_copy(cube)),
                   (IF auf # <<>> THEN <<auf>> ELSE <<>>)
                     \o <<inverse_algorithm(alg)>>)}} : TRUE

\* verify = cube.copy(); verify.apply_algorithm(...) for the first step and
\* the steps of the last-layer path.
verify_on_copy(cube, algorithms) ==
  CHOOSE verified \in
    {[ok |-> pair.ok, verify |-> pair.mine, cube |-> pair.theirs] :
       pair \in {apply_algorithms_on(PairOf(cube, Cube_copy(cube)),
                                     algorithms)}} : TRUE

\* The passes of the two loops of a finder, in order: case by case, the four
\* AUF setups of each.
Trials(cases) ==
  [n \in 1..(Len(cases) * Len(CubeSolver_AUF_SETUPS)) |->
     [case_name |-> cases[((n - 1) \div 4) + 1][1],
      alg |-> cases[((n - 1) \div 4) + 1][2],
      auf |-> CubeSolver_AUF_SETUPS[((n - 1) % 4) + 1]]]

\* full_f2l = f"{auf} {f2l_solve}".strip() if auf else f2l_solve
FullAlgorithm(t) ==
  IF t.auf # <<>> THEN t.auf \o <<" ">> \o inverse_algorithm(t.alg)
  ELSE inverse_algorithm(t.alg)

FirstStep(set_name, t, phase_after) ==
  SolveStep(set_name, t.case_name \o AufSuffix(t.auf), FullAlgorithm(t),
            "f2l_last_pair", phase_after)

StepAlgorithms(path_steps) ==
  [k \in 1..Len(path_steps) |-> path_steps[k].algorithm]

\* One pass of "for ll_path in ll_paths", v the verification on a copy.
verified_one(set_name, t, ll_path, acc, v) ==
  [cube |-> v.cube,
   paths |->
     IF v.ok /\ is_solved(v.verify)
     THEN Append(acc.paths,
                 SolvePath(<<FirstStep(set_name, t,
                                       ll_path.steps[1].phase_before)>>
                             \o ll_path.steps,
                           t.case_name
                             \o (IF set_name = "ZBLS" THEN " (ZBLS)" ELSE "")
                             \o " -> " \o ll_path.description))
     ELSE acc.paths]

\* for ll_path in ll_paths, from the j-th on.
RECURSIVE verify_all(_, _, _, _, _)
verify_all(set_name, t, ll_paths, j, acc) ==
  CHOOSE after \in
    {IF j > Len(ll_paths) THEN now
     ELSE verify_all(set_name, t, ll_paths, j + 1,
            CHOOSE next \in
              {verified_one(set_name, t, ll_paths[j], now, v) :
                 v \in {verify_on_copy(
                          now.cube,
                          <<FullAlgorithm(t)>>
                            \o StepAlgorithms(ll_paths[j].steps))}} : TRUE) :
       now \in {acc}} : TRUE

\* The pass from the last-layer paths on.
after_ll(set_name, t, paths, r, ll_paths) ==
  IF ll_paths = <<>>
  THEN [cube |-> r.cube,
        paths |-> IF is_solved(r.test)
                  THEN Append(paths,
                              SolvePath(<<FirstStep(set_name, t, "solved")>>,
                                        t.case_name \o " -> Solved"))
                  ELSE paths]
  ELSE verify_all(set_name, t, ll_paths, 1, [cube |-> r.cube, paths |-> paths])

\* result.is_f2l_solved(), and for ZBLS result.is_ll_edges_oriented() too.
Postcondition(set_name, f) ==
  /\ is_f2l_solved(f)
  /\ set_name = "ZBLS" => is_ll_edges_oriented(f)

\* One pass of the loops, r what _try_f2l_alg gave.
after_trial(set_name, t, paths, r) ==
  IF ~r.ok THEN [cube |-> r.cube, paths |-> paths]
  ELSE IF ~Postcondition(set_name, r.test) THEN [cube |-> r.cube, paths |-> paths]
  ELSE CHOOSE after \in
         {after_ll(set_name, t, paths, r, ll_paths) :
            ll_paths \in {solve(get_visible_stickers(r.test), 3)}} : TRUE

\* CubeSolver._find_f2l_solutions and _find_zbls_solutions: acc.paths the
\* paths appended so far, acc.cube the caller's cube.
RECURSIVE find_by_trial(_, _, _, _)
find_by_trial(set_name, trials, i, acc) ==
  CHOOSE after \in
    {IF i > Len(trials) THEN now
     ELSE IF trials[i].alg = <<>>
     THEN find_by_trial(set_name, trials, i + 1, now)
     ELSE find_by_trial(set_name, trials, i + 1,
            CHOOSE next \in
              {after_trial(set_name, trials[i], now.paths, r) :
                 r \in {try_f2l_alg(now.cube, trials[i].alg,
                                    trials[i].auf)}} : TRUE) :
       now \in {acc}} : TRUE

find_f2l_solutions(acc) == find_by_trial("F2L", Trials(F2L_CASES), 1, acc)

find_zbls_solutions(acc) == find_by_trial("ZBLS", Trials(ZBLS_CASES), 1, acc)

\* The last-pair branch: both finders, then the ranking.
ranked(acc, max_paths) ==
  CHOOSE result \in
    {[cube |-> found.cube, paths |-> rank_paths(found.paths, max_paths),
      appended |-> found.paths] : found \in {acc}} : TRUE

\* CubeSolver.solve_from_cube: the paths it returns, the caller's cube as it
\* leaves it, and the paths its finders appended.
solve_from_cube(cube, max_paths) ==
  LET phase == detect_phase_full(cube).phase
  IN  IF phase \in {"solved", "unknown"}
      THEN [cube |-> cube, paths |-> <<>>, appended |-> <<>>]
      ELSE IF phase = "f2l_last_pair"
      THEN ranked(find_zbls_solutions(
                    find_f2l_solutions([cube |-> cube, paths |-> <<>>])),
                  max_paths)
      ELSE IF phase \in {"pll", "oll", "oll_edges_oriented", "ell"}
      THEN [cube |-> cube,
            paths |-> solve(get_visible_stickers(cube), max_paths),
            appended |-> AllFound(get_visible_stickers(cube), phase)]
      ELSE [cube |-> cube, paths |-> <<>>, appended |-> <<>>]

\* The algorithms a cube is scrambled with before solve_from_cube is handed
\* it: last-layer cases, cases of the two catalogues, and single moves.
FullCubeScrambles ==
  {OllCases[1][2], PllCases[1][2], F2L_CASES[1][2], F2L_CASES[2][2],
   ZBLS_CASES[1][2], <<"U">>, <<"R">>}

ScrambleFullCube(algorithm) ==
  /\ pc = "ready"
  /\ ApplyAlgorithm(algorithm)

\* solver.solve_from_cube(cube, max_paths)
SolveFromCube(max_paths) ==
  /\ pc = "ready" /\ SettingUp
  /\ \E r \in {solve_from_cube(faces, max_paths)} :
       /\ faces' = r.cube
       /\ answer' = [made |-> TRUE, paths |-> r.paths]
       /\ call' = [op |-> "solve_from_cube", arg |-> r.appended,
                   n |-> max_paths]
  /\ origin' = faces
  /\ UNCHANGED <<raised, steps, resolverVars, set_tables, reconVars,
                 detectorVars, pipelineVars, copyVars>>

FullCubeInit == SolverInit

FullCubeNext ==
  \/ \E algorithm \in FullCubeScrambles : ScrambleFullCube(algorithm)
  \/ \E max_paths \in MaxPathsInputs : SolveFromCube(max_paths)

SpecFullCube == FullCubeInit /\ [][FullCubeNext]_vars

\* C26: after solve_from_cube the caller's cube has the 54 stickers it had
\* before the call.
C26_CallerCubeUnchanged ==
  call.op = "solve_from_cube" => faces = origin

\* The last pair of the cube was open, and a path of two steps or more was
\* returned: a trial and a verification each ran on a copy.
C26_Witness ==
  /\ call.op = "solve_from_cube"
  /\ detect_phase_full(origin).phase = "f2l_last_pair"
  /\ Len(answer.paths) > 0
  /\ Len(answer.paths[1].steps) > 1

====
